---- MODULE Spec2Model ----
(***************************************************************************)
(* Chat synchronization client of Lattera (client/src/pages/MainChat.tsx   *)
(* and client/src/components/MessageWindow.tsx): the React state of the    *)
(* chat page, its handlers, the HTTP calls they leave in flight and the    *)
(* socket events they reconcile.  The message routes of the server are not *)
(* part of the sources; the server side of send/list/edit/delete is        *)
(* modelled from sections 4.1 and 4.3 of the specification.                *)
(***************************************************************************)
EXTENDS Integers, Sequences, FiniteSets, TLC

\* ------------------------------------------------------------------ bounds
MaxNew     == 1   \* messages the server creates during a behaviour
MaxClock   == 2   \* values Date.now() takes while the user sends
MaxSelect  == 2   \* calls of handleChatSelect
MaxMore    == 1   \* calls of handleLoadMoreMessages
MaxSend    == 2   \* calls of handleSendMessage
MaxMutate  == 1   \* calls of handleEditMessage, and of handleDeleteMessage
MaxTyping  == 3   \* typing events the socket delivers
SmallPage  == 2   \* page size of the interleaving model (stands for LIMIT)
MaxStored  == 3   \* pagination model: stored messages 0..LIMIT*2+MaxStored
MaxLate    == 2   \* gateway model: minutes before and after the end of the edit window
MaxGateway == 2   \* gateway model: requests the gateway handles
MaxService == 2   \* api service model: operations called
MaxRoute   == 2   \* chat routes: requests handled
MaxUnread  == 2   \* chat routes: highest unread counter

\* ------------------------------------------------------- program constants
LIMIT          == 50   \* loadMessages: limit: 50
TYPING_TIMEOUT == 5    \* onTyping: setTimeout(..., 5000), in seconds
EDIT_WINDOW    == 15   \* canEdit: fifteenMinutes = 15 * 60 * 1000, in minutes
SCROLL_THRESHOLD == 100 \* handleScroll: pixels from the bottom, and from the top

Chats    == {"A", "B"}
Me       == "me"
Other    == "u2"
Users    == {Me, Other, "u3"}
Contents == {"x", "y"}
NoChat   == "none"

VARIABLES
    \* MainChat React state
    chats,            \* useState<ChatResponseData[]>
    selectedChatId,   \* useState<string | null>
    messages,         \* useState<MessageWithFlags[]>
    typingUsers,      \* useState<Set<string>>
    messagesLoading,  \* useState(false)
    hasMoreMessages,  \* useState(false)
    messagesOffset,   \* useState(0)
    typingTimeoutRef, \* useRef<Map<string, Timeout>>: user -> handle, 0: no entry
    shouldAutoScroll, \* MessageWindow: useState(true)
    lastScroll,       \* distance from the bottom handleScroll saw last, -1: none
    editing,          \* MessageItem state of the items in edit mode, by message id
    toasts,           \* what the last handler that called addToast showed
    lastError,        \* what the last rejected edit or delete was rejected with
    \* environment
    limit,            \* page size asked of api.messages.list
    now,              \* last value of Date.now() seen by a handler
    timers,           \* pending setTimeout callbacks of onTyping: [id, userId, left]
    sinceTyping,      \* seconds since the last typing-started event per user
    fetches,          \* loadMessages calls awaiting api.messages.list
    sends,            \* handleSendMessage calls awaiting upload/send
    edits,            \* handleEditMessage calls awaiting api.messages.edit
    deletes,          \* handleDeleteMessage calls awaiting api.messages.delete
    markReads,        \* handleChatSelect calls awaiting api.chats.markAsRead
    srv,              \* server: stored messages per chat, oldest first
    nextId,           \* server: next message id
    evq,              \* socket: events published and not yet delivered
    calls,            \* how often the user may still call each handler
    gw,               \* Message Mutation Gateway: store, clock, last reply, events
    svc,              \* api service: the call in progress and its outcome
    db,               \* server: Chat collection, requests of routes/chats.ts
    onlineUsers,      \* MainChat state: ids of the users shown as online
    lastStatus,       \* socket: the status of the last user-status event per user
    removed,          \* history: ids taken out of the list by a message-deleted
                      \* event or a confirmed delete since the last selection
    crm,              \* CRM Users page: users shown, deletions awaited, accounts
    pw                \* server: password hash, refresh tokens, PATCH /me/password

vars == << chats, selectedChatId, messages, typingUsers, messagesLoading,
           hasMoreMessages, messagesOffset, typingTimeoutRef, toasts, limit,
           now, timers, sinceTyping, fetches, sends, edits, deletes,
           markReads, srv, nextId, evq, calls, gw, shouldAutoScroll,
           lastScroll, editing, lastError, svc, db, onlineUsers, lastStatus, removed, crm, pw >>

\* ----------------------------------------------------------------- helpers
RECURSIVE Reverse(_)
Reverse(s) == IF s = << >> THEN << >>
              ELSE Append(Reverse(Tail(s)), Head(s))

Filter(s, Keep(_)) == SelectSeq(s, Keep)

Map(s, F(_)) == [i \in 1..Len(s) |-> F(s[i])]

RemoveAt(s, i) == [j \in 1..(Len(s) - 1) |-> IF j < i THEN s[j] ELSE s[j + 1]]

HasId(s, id) == \E i \in 1..Len(s) : s[i].id = id

\* MessageItem is keyed by message.id (MessageWindow.tsx 486): the state of
\* an item is lost when its message leaves the list.
Unmount(items, list) == {e \in items : HasId(list, e.id)}

\* setIsEditing(false) of the item of a message.
StopEditing(items, messageId) == {e \in items : e.id # messageId}

Min(a, b) == IF a < b THEN a ELSE b

\* A message as the server stores and returns it.
ServerMsg(id, chat, sender, content) ==
    [id |-> id, chatId |-> chat, senderId |-> sender, content |-> content,
     edited |-> FALSE, status |-> "sent", delivered |-> TRUE,
     isDeleting |-> FALSE, timestamp |-> id]

\* `temp-${Date.now()}`: never equal to a server id.
TempId(t) == 0 - t

NoMsg == ServerMsg(0, NoChat, Me, "x")

\* ------------------------------------------------------------------ server
\* GET /messages?chatId&limit&offset: newest first, skip offset, at most lim.
ServerList(stored, offset, lim) ==
    LET newestFirst == Reverse(stored)
    IN  SubSeq(newestFirst, offset + 1, Min(offset + lim, Len(newestFirst)))

\* --------------------------------------------------- MainChat: loadMessages
\* Mutant: a later page is put after the list instead of before it.
LoadMessagesApplyAppends(prev, page, offset) ==
    IF offset = 0 THEN Reverse(page) ELSE prev \o Reverse(page)

\* setMessages of loadMessages (MainChat.tsx 62-66).
LoadMessagesApply(prev, page, offset) ==
    IF offset = 0 THEN Reverse(page) ELSE Reverse(page) \o prev

\* setHasMoreMessages(response.messages.length === 50).
HasMoreAfter(page, lim) == Len(page) = lim

\* loadMessages up to its await: setMessagesLoading(true), request issued.
LoadMessagesStart(chatId, offset, mark) ==
    /\ calls' = [calls EXCEPT ![IF mark THEN "select" ELSE "more"] = @ - 1]
    /\ messagesLoading' = TRUE
    /\ fetches' = Append(fetches, [chatId |-> chatId, offset |-> offset,
                                   mark |-> mark, phase |-> "req",
                                   page |-> << >>])

\* The effect of MainChat.tsx 289-398 depends on selectedChatId: when it
\* changes, the cleanup clears every typing timer and the handlers are
\* subscribed again with the new selectedChatId.
EffectCleanup(chatId) ==
    IF chatId # selectedChatId
    THEN /\ timers' = {}
         /\ typingTimeoutRef' = [u \in Users |-> 0]
    ELSE UNCHANGED << timers, typingTimeoutRef >>

\* handleChatSelect (MainChat.tsx 80-108) up to the await of loadMessages.
HandleChatSelect(chatId) ==
    /\ calls["select"] > 0
    /\ selectedChatId' = chatId
    /\ messages' = << >>
    /\ messagesOffset' = 0
    /\ typingUsers' = {}
    /\ LoadMessagesStart(chatId, 0, TRUE)
    /\ EffectCleanup(chatId)
    /\ removed' = {}
    /\ editing' = Unmount(editing, messages')
    /\ UNCHANGED << chats, hasMoreMessages, toasts, limit, now, sinceTyping,
                    sends, edits, deletes, markReads, srv, nextId, evq, gw,
                    shouldAutoScroll, lastScroll, lastError, svc, db,
                    onlineUsers, lastStatus, crm, pw >>

\* handleLoadMoreMessages (MainChat.tsx 110-114), called by handleScroll
\* (MessageWindow.tsx 426-436) when the list is rendered and scrolled to
\* its top.
HandleLoadMoreMessages ==
    /\ calls["more"] > 0
    /\ Len(messages) > 0
    /\ hasMoreMessages /\ ~messagesLoading
    /\ selectedChatId # NoChat
    /\ LoadMessagesStart(selectedChatId, messagesOffset, FALSE)
    /\ UNCHANGED << chats, selectedChatId, messages, typingUsers,
                    hasMoreMessages, messagesOffset, typingTimeoutRef, toasts,
                    limit, now, timers, sinceTyping, sends, edits, deletes,
                    markReads, srv, nextId, evq, gw, shouldAutoScroll,
                    lastScroll, editing, lastError, svc, db, onlineUsers,
                    lastStatus, removed, crm, pw >>

\* The server answers a list request.
FetchServer(i) ==
    /\ i \in 1..Len(fetches)
    /\ fetches[i].phase = "req"
    /\ fetches' = [fetches EXCEPT ![i].phase = "ok",
                     ![i].page = ServerList(srv[fetches[i].chatId],
                                            fetches[i].offset, limit)]
    /\ UNCHANGED << chats, selectedChatId, messages, typingUsers,
                    messagesLoading, hasMoreMessages, messagesOffset,
                    typingTimeoutRef, toasts, limit, now, timers, sinceTyping,
                    sends, edits, deletes, markReads, srv, nextId, evq, calls,
                    gw, shouldAutoScroll, lastScroll, editing, lastError, svc,
                    db, onlineUsers, lastStatus, removed, crm, pw >>

\* handleChatSelect goes on to api.chats.markAsRead once loadMessages returns.
AfterLoad(f) == IF f.mark THEN Append(markReads, f.chatId) ELSE markReads

\* loadMessages after its await, the request fulfilled (MainChat.tsx 62-69, 74).
FetchOk(i) ==
    /\ i \in 1..Len(fetches)
    /\ fetches[i].phase = "ok"
    /\ messages' = LoadMessagesApply(messages, fetches[i].page, fetches[i].offset)
    /\ hasMoreMessages' = HasMoreAfter(fetches[i].page, limit)
    /\ messagesOffset' = fetches[i].offset + Len(fetches[i].page)
    /\ messagesLoading' = FALSE
    /\ fetches' = RemoveAt(fetches, i)
    /\ markReads' = AfterLoad(fetches[i])
    /\ editing' = Unmount(editing, messages')
    /\ UNCHANGED << chats, selectedChatId, typingUsers, typingTimeoutRef,
                    toasts, limit, now, timers, sinceTyping, sends, edits,
                    deletes, srv, nextId, evq, calls, gw, shouldAutoScroll,
                    lastScroll, lastError, svc, db, onlineUsers, lastStatus,
                    removed, crm, pw >>

\* Mutant: the rejection leaves the loading flag set (no finally block).
FetchFailKeepsLoading(i) ==
    /\ i \in 1..Len(fetches)
    /\ fetches[i].phase = "req"
    /\ toasts' = {"loadMessagesFailed"}
    /\ messagesLoading' = TRUE
    /\ fetches' = RemoveAt(fetches, i)
    /\ markReads' = AfterLoad(fetches[i])
    /\ UNCHANGED << chats, selectedChatId, messages, typingUsers,
                    hasMoreMessages, messagesOffset, typingTimeoutRef, limit,
                    now, timers, sinceTyping, sends, edits, deletes, srv,
                    nextId, evq, calls, gw, shouldAutoScroll, lastScroll,
                    editing, lastError, svc, db, onlineUsers, lastStatus,
                    removed, crm, pw >>

\* loadMessages after its await, the request rejected (MainChat.tsx 70-74).
FetchFail(i) ==
    /\ i \in 1..Len(fetches)
    /\ fetches[i].phase = "req"
    /\ toasts' = {"loadMessagesFailed"}
    /\ messagesLoading' = FALSE
    /\ fetches' = RemoveAt(fetches, i)
    /\ markReads' = AfterLoad(fetches[i])
    /\ UNCHANGED << chats, selectedChatId, messages, typingUsers,
                    hasMoreMessages, messagesOffset, typingTimeoutRef, limit,
                    now, timers, sinceTyping, sends, edits, deletes, srv,
                    nextId, evq, calls, gw, shouldAutoScroll, lastScroll,
                    editing, lastError, svc, db, onlineUsers, lastStatus,
                    removed, crm, pw >>

\* Mutant: the counters of all participants of the chat are set to 0.
MarkReadApplyAll(prev, chatId) ==
    Map(prev, LAMBDA c : IF c.id = chatId
                         THEN [c EXCEPT !.unreadCount = [u \in Users |-> 0]]
                         ELSE c)

\* setChats of handleChatSelect (MainChat.tsx 94-100).
MarkReadApply(prev, chatId) ==
    Map(prev, LAMBDA c : IF c.id = chatId
                         THEN [c EXCEPT !.unreadCount[Me] = 0]
                         ELSE c)

MarkReadOk(i) ==
    /\ i \in 1..Len(markReads)
    /\ chats' = MarkReadApply(chats, markReads[i])
    /\ markReads' = RemoveAt(markReads, i)
    /\ UNCHANGED << selectedChatId, messages, typingUsers, messagesLoading,
                    hasMoreMessages, messagesOffset, typingTimeoutRef, toasts,
                    limit, now, timers, sinceTyping, fetches, sends, edits,
                    deletes, srv, nextId, evq, calls, gw, shouldAutoScroll,
                    lastScroll, editing, lastError, svc, db, onlineUsers,
                    lastStatus, removed, crm, pw >>

MarkReadFail(i) ==
    /\ i \in 1..Len(markReads)
    /\ toasts' = {"markAsReadFailed"}
    /\ markReads' = RemoveAt(markReads, i)
    /\ UNCHANGED << chats, selectedChatId, messages, typingUsers,
                    messagesLoading, hasMoreMessages, messagesOffset,
                    typingTimeoutRef, limit, now, timers, sinceTyping, fetches,
                    sends, edits, deletes, srv, nextId, evq, calls, gw,
                    shouldAutoScroll, lastScroll, editing, lastError, svc, db,
                    onlineUsers, lastStatus, removed, crm, pw >>

\* ----------------------------------------- MessageWindow: socket handlers
\* Mutant: the message is appended whatever chat it belongs to.
WindowOnNewMessageAnyChat(prev, message, chatId) ==
    IF HasId(prev, message.id) THEN prev ELSE Append(prev, message)

\* Mutant: the message is appended without looking for its id.
WindowOnNewMessageNoGuard(prev, message, chatId) ==
    IF message.chatId # chatId THEN prev ELSE Append(prev, message)

\* onNewMessage (MessageWindow.tsx 358-375).
WindowOnNewMessage(prev, message, chatId) ==
    IF message.chatId # chatId THEN prev
    ELSE IF HasId(prev, message.id) THEN prev
    ELSE Append(prev, message)

\* onMessageDeleted (MessageWindow.tsx 377-381).
WindowOnMessageDeleted(prev, data, chatId) ==
    IF data.chatId = chatId
    THEN Filter(prev, LAMBDA m : m.id # data.messageId)
    ELSE prev

\* Mutant: an edit for an id the list does not hold adds a record.
WindowOnMessageEditedUpserts(prev, data, chatId) ==
    IF data.chatId # chatId THEN prev
    ELSE IF HasId(prev, data.messageId)
    THEN Map(prev, LAMBDA m : IF m.id = data.messageId
                              THEN [m EXCEPT !.content = data.content,
                                             !.edited = TRUE]
                              ELSE m)
    ELSE Append(prev, [NoMsg EXCEPT !.id = data.messageId,
                                    !.chatId = data.chatId,
                                    !.content = data.content,
                                    !.edited = TRUE])

\* onMessageEdited (MessageWindow.tsx 383-393).
WindowOnMessageEdited(prev, data, chatId) ==
    IF data.chatId = chatId
    THEN Map(prev, LAMBDA m : IF m.id = data.messageId
                              THEN [m EXCEPT !.content = data.content,
                                             !.edited = TRUE]
                              ELSE m)
    ELSE prev

\* --------------------------------------------- MainChat: socket handlers
\* Mutant: the open chat counts as unread too.
ShouldIncrementUnreadOpenChat(message, selected) == message.senderId # Me

\* shouldIncrementUnread (MainChat.tsx 301-302).
ShouldIncrementUnread(message, selected) ==
    message.senderId # Me /\ message.chatId # selected

\* first setChats of onNewMessage (MainChat.tsx 297-323).
ChatsUpdateOnNewMessage(prev, message, selected) ==
    Map(prev, LAMBDA chat :
        IF chat.id # message.chatId THEN chat
        ELSE [chat EXCEPT
                !.lastMessage = [content |-> message.content,
                                 senderId |-> message.senderId,
                                 timestamp |-> message.timestamp],
                !.unreadCount = IF ShouldIncrementUnread(message, selected)
                                THEN [chat.unreadCount EXCEPT ![Me] = @ + 1]
                                ELSE chat.unreadCount])

\* findIndex: the first index with the id, 0 when there is none.
FindIndex(prev, id) ==
    IF \E i \in 1..Len(prev) : prev[i].id = id
    THEN CHOOSE i \in 1..Len(prev) :
            prev[i].id = id /\ \A j \in 1..(i - 1) : prev[j].id # id
    ELSE 0

\* Mutant: the chat changes places with the first one.
ChatsSwapWithFront(prev, chatId) ==
    LET chatIndex == FindIndex(prev, chatId)
    IN  IF chatIndex <= 1 THEN prev
        ELSE [prev EXCEPT ![1] = prev[chatIndex], ![chatIndex] = prev[1]]

\* second setChats of onNewMessage (MainChat.tsx 326-333).
ChatsMoveToFront(prev, chatId) ==
    LET chatIndex == FindIndex(prev, chatId)
    IN  IF chatIndex <= 1 THEN prev
        ELSE << prev[chatIndex] >> \o RemoveAt(prev, chatIndex)

ChatsOnNewMessage(prev, message, selected) ==
    ChatsMoveToFront(ChatsUpdateOnNewMessage(prev, message, selected),
                     message.chatId)

\* The ids removed so far, and those the list held before and not after.
Removed(prev, next) ==
    removed \cup {prev[k].id : k \in {j \in 1..Len(prev) : ~HasId(next, prev[j].id)}}

\* The socket delivers the oldest undelivered event to every subscriber:
\* MainChat's onNewMessage and, when a chat is open, MessageWindow's handlers.
\* The markAsRead call MainChat starts for a message of the open chat
\* (MainChat.tsx 304-306) changes no state of the client.
DeliverCreated ==
    /\ evq # << >> /\ Head(evq).type = "created"
    /\ chats' = ChatsOnNewMessage(chats, Head(evq).msg, selectedChatId)
    /\ messages' = IF selectedChatId = NoChat THEN messages
                   ELSE WindowOnNewMessage(messages, Head(evq).msg, selectedChatId)
    /\ evq' = Tail(evq)
    /\ editing' = Unmount(editing, messages')
    /\ UNCHANGED << selectedChatId, typingUsers, messagesLoading,
                    hasMoreMessages, messagesOffset, typingTimeoutRef, toasts,
                    limit, now, timers, sinceTyping, fetches, sends, edits,
                    deletes, markReads, srv, nextId, calls, gw,
                    shouldAutoScroll, lastScroll, lastError, svc, db,
                    onlineUsers, lastStatus, removed, crm, pw >>

DeliverDeleted ==
    /\ evq # << >> /\ Head(evq).type = "deleted"
    /\ messages' = IF selectedChatId = NoChat THEN messages
                   ELSE WindowOnMessageDeleted(messages, Head(evq), selectedChatId)
    /\ removed' = Removed(messages, messages')
    /\ evq' = Tail(evq)
    /\ editing' = Unmount(editing, messages')
    /\ UNCHANGED << chats, selectedChatId, typingUsers, messagesLoading,
                    hasMoreMessages, messagesOffset, typingTimeoutRef, toasts,
                    limit, now, timers, sinceTyping, fetches, sends, edits,
                    deletes, markReads, srv, nextId, calls, gw,
                    shouldAutoScroll, lastScroll, lastError, svc, db,
                    onlineUsers, lastStatus, crm, pw >>

DeliverEdited ==
    /\ evq # << >> /\ Head(evq).type = "edited"
    /\ messages' = IF selectedChatId = NoChat THEN messages
                   ELSE WindowOnMessageEdited(messages, Head(evq), selectedChatId)
    /\ evq' = Tail(evq)
    /\ editing' = Unmount(editing, messages')
    /\ UNCHANGED << chats, selectedChatId, typingUsers, messagesLoading,
                    hasMoreMessages, messagesOffset, typingTimeoutRef, toasts,
                    limit, now, timers, sinceTyping, fetches, sends, edits,
                    deletes, markReads, srv, nextId, calls, gw,
                    shouldAutoScroll, lastScroll, lastError, svc, db,
                    onlineUsers, lastStatus, removed, crm, pw >>

\* ------------------------------------------------------- server mutations
CreatedEvent(msg) ==
    [type |-> "created", msg |-> msg, chatId |-> msg.chatId,
     messageId |-> msg.id, content |-> msg.content]

EditedEvent(chatId, id, content) ==
    [type |-> "edited", msg |-> NoMsg, chatId |-> chatId,
     messageId |-> id, content |-> content]

DeletedEvent(chatId, id) ==
    [type |-> "deleted", msg |-> NoMsg, chatId |-> chatId,
     messageId |-> id, content |-> "x"]

\* The store holds ids 1..SmallPage+1 at the start.
FirstNewId == SmallPage + 2

\* Send of section 4.1: the message is stored and message-created published.
ServerSend(msg) ==
    /\ nextId < FirstNewId + MaxNew
    /\ srv' = [srv EXCEPT ![msg.chatId] = Append(@, msg)]
    /\ nextId' = nextId + 1
    /\ evq' = Append(evq, CreatedEvent(msg))

\* Another participant sends a message to a chat.
OtherSend(chatId, content) ==
    /\ ServerSend(ServerMsg(nextId, chatId, Other, content))
    /\ UNCHANGED << chats, selectedChatId, messages, typingUsers,
                    messagesLoading, hasMoreMessages, messagesOffset,
                    typingTimeoutRef, toasts, limit, now, timers, sinceTyping,
                    fetches, sends, edits, deletes, markReads, calls, gw,
                    shouldAutoScroll, lastScroll, editing, lastError, svc, db,
                    onlineUsers, lastStatus, removed, crm, pw >>

\* ------------------------------------------------ MainChat: handleSendMessage
\* tempMessage (MainChat.tsx 177-194).  The timer of MainChat.tsx 199-203
\* only writes _isNew: false on this record, a flag no handler reads; it is
\* not part of the records here.
TempMessage(t, chatId, content) ==
    [id |-> TempId(t), chatId |-> chatId, senderId |-> Me,
     content |-> content, edited |-> FALSE, status |-> "sending",
     delivered |-> FALSE, isDeleting |-> FALSE, timestamp |-> t]

\* setMessages on success (MainChat.tsx 233-248).
SendReplace(prev, tempId, data) ==
    Map(prev, LAMBDA m : IF m.id = tempId
                         THEN [data EXCEPT !.status = "sent",
                                           !.delivered = TRUE]
                         ELSE m)

\* setMessages on failure (MainChat.tsx 222 and 267).
SendRemove(prev, tempId) == Filter(prev, LAMBDA m : m.id # tempId)

\* setChats on success (MainChat.tsx 250-263).
SendLastMessage(prev, chatId, data) ==
    Map(prev, LAMBDA chat :
        IF chat.id = chatId
        THEN [chat EXCEPT !.lastMessage = [content |-> data.content,
                                           senderId |-> Me,
                                           timestamp |-> data.timestamp]]
        ELSE chat)

\* handleSendMessage up to its first await (MainChat.tsx 175-227).  Date.now()
\* is read once: it has not gone back since the last call and need not have
\* advanced.
HandleSendMessage(content, mediaFile, t) ==
    /\ selectedChatId # NoChat
    /\ calls["send"] > 0
    /\ calls' = [calls EXCEPT !["send"] = @ - 1]
    /\ t >= now /\ t <= MaxClock
    /\ now' = t
    /\ messages' = Append(messages, TempMessage(t, selectedChatId, content))
    /\ sends' = Append(sends, [tempId |-> TempId(t), chatId |-> selectedChatId,
                               content |-> content,
                               phase |-> IF mediaFile THEN "upload" ELSE "req",
                               data |-> NoMsg])
    /\ editing' = Unmount(editing, messages')
    /\ UNCHANGED << chats, selectedChatId, typingUsers, messagesLoading,
                    hasMoreMessages, messagesOffset, typingTimeoutRef, toasts,
                    limit, timers, sinceTyping, fetches, edits, deletes,
                    markReads, srv, nextId, evq, gw, shouldAutoScroll,
                    lastScroll, lastError, svc, db, onlineUsers, lastStatus,
                    removed, crm, pw >>

\* api.media.upload fulfilled: the call goes on to api.messages.send.
UploadOk(i) ==
    /\ i \in 1..Len(sends)
    /\ sends[i].phase = "upload"
    /\ sends' = [sends EXCEPT ![i].phase = "req"]
    /\ UNCHANGED << chats, selectedChatId, messages, typingUsers,
                    messagesLoading, hasMoreMessages, messagesOffset,
                    typingTimeoutRef, toasts, limit, now, timers, sinceTyping,
                    fetches, edits, deletes, markReads, srv, nextId, evq, calls,
                    gw, shouldAutoScroll, lastScroll, editing, lastError, svc,
                    db, onlineUsers, lastStatus, removed, crm, pw >>

\* api.media.upload rejected (MainChat.tsx 219-224).
UploadFail(i) ==
    /\ i \in 1..Len(sends)
    /\ sends[i].phase = "upload"
    /\ toasts' = {"uploadFailed"}
    /\ messages' = SendRemove(messages, sends[i].tempId)
    /\ sends' = RemoveAt(sends, i)
    /\ editing' = Unmount(editing, messages')
    /\ UNCHANGED << chats, selectedChatId, typingUsers, messagesLoading,
                    hasMoreMessages, messagesOffset, typingTimeoutRef, limit,
                    now, timers, sinceTyping, fetches, edits, deletes,
                    markReads, srv, nextId, evq, calls, gw, shouldAutoScroll,
                    lastScroll, lastError, svc, db, onlineUsers, lastStatus,
                    removed, crm, pw >>

\* The server handles the send request.
SendServer(i) ==
    /\ i \in 1..Len(sends)
    /\ sends[i].phase = "req"
    /\ ServerSend(ServerMsg(nextId, sends[i].chatId, Me, sends[i].content))
    /\ sends' = [sends EXCEPT ![i].phase = "ok",
                   ![i].data = ServerMsg(nextId, sends[i].chatId, Me,
                                         sends[i].content)]
    /\ UNCHANGED << chats, selectedChatId, messages, typingUsers,
                    messagesLoading, hasMoreMessages, messagesOffset,
                    typingTimeoutRef, toasts, limit, now, timers, sinceTyping,
                    fetches, edits, deletes, markReads, calls, gw,
                    shouldAutoScroll, lastScroll, editing, lastError, svc, db,
                    onlineUsers, lastStatus, removed, crm, pw >>

\* api.messages.send fulfilled (MainChat.tsx 233-263).
SendOk(i) ==
    /\ i \in 1..Len(sends)
    /\ sends[i].phase = "ok"
    /\ messages' = SendReplace(messages, sends[i].tempId, sends[i].data)
    /\ chats' = SendLastMessage(chats, sends[i].chatId, sends[i].data)
    /\ sends' = RemoveAt(sends, i)
    /\ editing' = Unmount(editing, messages')
    /\ UNCHANGED << selectedChatId, typingUsers, messagesLoading,
                    hasMoreMessages, messagesOffset, typingTimeoutRef, toasts,
                    limit, now, timers, sinceTyping, fetches, edits, deletes,
                    markReads, srv, nextId, evq, calls, gw, shouldAutoScroll,
                    lastScroll, lastError, svc, db, onlineUsers, lastStatus,
                    removed, crm, pw >>

\* api.messages.send rejected (MainChat.tsx 264-268).
SendFail(i) ==
    /\ i \in 1..Len(sends)
    /\ sends[i].phase = "req"
    /\ toasts' = {"sendFailed"}
    /\ messages' = SendRemove(messages, sends[i].tempId)
    /\ sends' = RemoveAt(sends, i)
    /\ editing' = Unmount(editing, messages')
    /\ UNCHANGED << chats, selectedChatId, typingUsers, messagesLoading,
                    hasMoreMessages, messagesOffset, typingTimeoutRef, limit,
                    now, timers, sinceTyping, fetches, edits, deletes,
                    markReads, srv, nextId, evq, calls, gw, shouldAutoScroll,
                    lastScroll, lastError, svc, db, onlineUsers, lastStatus,
                    removed, crm, pw >>

\* ------------------------------------------------ MainChat: handleEditMessage
\* optimistic setMessages (MainChat.tsx 121-127).
EditOptimistic(prev, messageId, content) ==
    Map(prev, LAMBDA m : IF m.id = messageId
                         THEN [m EXCEPT !.content = content, !.edited = TRUE]
                         ELSE m)

\* setMessages of the catch branch (MainChat.tsx 142): (prev) => prev.
EditRollback(prev, messageId) == prev

\* The record of the list that MessageItem shows for an id.
Shown(messageId) == messages[FindIndex(messages, messageId)]

\* The edit action of MessageItem is offered for the user's own messages
\* that are not being sent (MessageWindow.tsx 280, 291); handleEditSave
\* calls onEditMessage only when the content differs (MessageWindow.tsx 102).
CanStartEdit(m, content) ==
    m.senderId = Me /\ m.status # "sending" /\ m.content # content

\* handleEditMessage up to its await (MainChat.tsx 118-131).
EditRequest(messageId, content) ==
    /\ calls["edit"] > 0
    /\ calls' = [calls EXCEPT !["edit"] = @ - 1]
    /\ messages' = EditOptimistic(messages, messageId, content)
    /\ edits' = Append(edits, [id |-> messageId,
                               chatId |-> Shown(messageId).chatId,
                               content |-> content,
                               before |-> Shown(messageId).content])

HandleEditMessage(messageId, content) ==
    /\ \E k \in 1..Len(messages) :
          messages[k].id = messageId /\ CanStartEdit(messages[k], content)
    /\ EditRequest(messageId, content)
    /\ editing' = Unmount(editing, messages')
    /\ UNCHANGED << chats, selectedChatId, typingUsers, messagesLoading,
                    hasMoreMessages, messagesOffset, typingTimeoutRef, toasts,
                    limit, now, timers, sinceTyping, fetches, sends, deletes,
                    markReads, srv, nextId, evq, gw, shouldAutoScroll,
                    lastScroll, lastError, svc, db, onlineUsers, lastStatus,
                    removed, crm, pw >>

\* Edit of section 4.1 on the stored message, and message-edited published.
ServerEdit(stored, id, content) ==
    Map(stored, LAMBDA m : IF m.id = id
                           THEN [m EXCEPT !.content = content, !.edited = TRUE]
                           ELSE m)

\* api.messages.edit fulfilled: handleEditMessage returns and handleEditSave
\* shows its success toast (MessageWindow.tsx 110-111).
EditOk(i) ==
    /\ i \in 1..Len(edits)
    /\ HasId(srv[edits[i].chatId], edits[i].id)
    /\ srv' = [srv EXCEPT ![edits[i].chatId] =
                              ServerEdit(@, edits[i].id, edits[i].content)]
    /\ evq' = Append(evq, EditedEvent(edits[i].chatId, edits[i].id,
                                      edits[i].content))
    /\ toasts' = {"editSuccess"}
    /\ editing' = StopEditing(editing, edits[i].id)
    /\ edits' = RemoveAt(edits, i)
    /\ UNCHANGED << chats, selectedChatId, messages, typingUsers,
                    messagesLoading, hasMoreMessages, messagesOffset,
                    typingTimeoutRef, limit, now, timers, sinceTyping, fetches,
                    sends, deletes, markReads, nextId, calls, gw,
                    shouldAutoScroll, lastScroll, lastError, svc, db,
                    onlineUsers, lastStatus, removed, crm, pw >>

\* What api.messages.edit rejects with: a rejection of the gateway, or an
\* error of the transport.
NoError == "none"

EditFailures == {"EditTimeout", "NetworkError"}

\* addToast of the catch of handleEditMessage (MainChat.tsx 137): the text
\* does not depend on the error.
EditErrorToast(err) == "editFailed"

\* api.messages.edit rejected (MainChat.tsx 135-143); handleEditMessage
\* swallows the error, so handleEditSave goes on as after a success.
EditFail(i) ==
    /\ i \in 1..Len(edits)
    /\ \E err \in EditFailures :
          /\ lastError' = err
          /\ toasts' = {EditErrorToast(err), "editSuccess"}
    /\ messages' = EditRollback(messages, edits[i].id)
    /\ editing' = StopEditing(editing, edits[i].id)
    /\ edits' = RemoveAt(edits, i)
    /\ UNCHANGED << chats, selectedChatId, typingUsers, messagesLoading,
                    hasMoreMessages, messagesOffset, typingTimeoutRef, limit,
                    now, timers, sinceTyping, fetches, sends, deletes,
                    markReads, srv, nextId, evq, calls, gw, shouldAutoScroll,
                    lastScroll, svc, db, onlineUsers, lastStatus, removed, crm,
                    pw >>

\* ---------------------------------------------- MainChat: handleDeleteMessage
\* Mutant: the record is hidden at once instead of being flagged.
DeleteFlagHides(prev, messageId, flag) ==
    IF flag THEN Filter(prev, LAMBDA m : m.id # messageId) ELSE prev

\* setMessages flagging / unflagging the record (MainChat.tsx 153-155, 165-167).
DeleteFlag(prev, messageId, flag) ==
    Map(prev, LAMBDA m : IF m.id = messageId
                         THEN [m EXCEPT !.isDeleting = flag]
                         ELSE m)

\* setMessages after the confirmation (MainChat.tsx 160).
DeleteRemove(prev, messageId) == Filter(prev, LAMBDA m : m.id # messageId)

\* The delete button is offered for the user's own messages that are not
\* being sent and is disabled while _isDeleting (MessageWindow.tsx 280, 311-314).
CanStartDelete(m) ==
    m.senderId = Me /\ m.status # "sending" /\ ~m.isDeleting

\* handleDeleteMessage up to its await (MainChat.tsx 150-158).
HandleDeleteMessage(messageId) ==
    /\ selectedChatId # NoChat
    /\ \E k \in 1..Len(messages) :
          messages[k].id = messageId /\ CanStartDelete(messages[k])
    /\ calls["delete"] > 0
    /\ calls' = [calls EXCEPT !["delete"] = @ - 1]
    /\ messages' = DeleteFlag(messages, messageId, TRUE)
    /\ deletes' = Append(deletes, [id |-> messageId,
                                   chatId |-> Shown(messageId).chatId,
                                   phase |-> "req"])
    /\ editing' = Unmount(editing, messages')
    /\ UNCHANGED << chats, selectedChatId, typingUsers, messagesLoading,
                    hasMoreMessages, messagesOffset, typingTimeoutRef, toasts,
                    limit, now, timers, sinceTyping, fetches, sends, edits,
                    markReads, srv, nextId, evq, gw, shouldAutoScroll,
                    lastScroll, lastError, svc, db, onlineUsers, lastStatus,
                    removed, crm, pw >>

\* Delete of section 4.1: the message leaves the store, message-deleted is
\* published.
DeleteServer(i) ==
    /\ i \in 1..Len(deletes)
    /\ deletes[i].phase = "req"
    /\ HasId(srv[deletes[i].chatId], deletes[i].id)
    /\ srv' = [srv EXCEPT ![deletes[i].chatId] =
                              Filter(@, LAMBDA m : m.id # deletes[i].id)]
    /\ evq' = Append(evq, DeletedEvent(deletes[i].chatId, deletes[i].id))
    /\ deletes' = [deletes EXCEPT ![i].phase = "ok"]
    /\ UNCHANGED << chats, selectedChatId, messages, typingUsers,
                    messagesLoading, hasMoreMessages, messagesOffset,
                    typingTimeoutRef, toasts, limit, now, timers, sinceTyping,
                    fetches, sends, edits, markReads, nextId, calls, gw,
                    shouldAutoScroll, lastScroll, editing, lastError, svc, db,
                    onlineUsers, lastStatus, removed, crm, pw >>

\* api.messages.delete fulfilled (MainChat.tsx 158-160).
DeleteOk(i) ==
    /\ i \in 1..Len(deletes)
    /\ deletes[i].phase = "ok"
    /\ messages' = DeleteRemove(messages, deletes[i].id)
    /\ removed' = Removed(messages, messages')
    /\ deletes' = RemoveAt(deletes, i)
    /\ editing' = Unmount(editing, messages')
    /\ UNCHANGED << chats, selectedChatId, typingUsers, messagesLoading,
                    hasMoreMessages, messagesOffset, typingTimeoutRef, toasts,
                    limit, now, timers, sinceTyping, fetches, sends, edits,
                    markReads, srv, nextId, evq, calls, gw, shouldAutoScroll,
                    lastScroll, lastError, svc, db, onlineUsers, lastStatus,
                    crm, pw >>

DeleteFailures == {"DeleteTimeout", "NetworkError"}

\* addToast of the catch of handleDeleteMessage (MainChat.tsx 161): the
\* text does not depend on the error.
DeleteErrorToast(err) == "deleteFailed"

\* api.messages.delete rejected (MainChat.tsx 161-168).
DeleteFail(i) ==
    /\ i \in 1..Len(deletes)
    /\ deletes[i].phase = "req"
    /\ \E err \in DeleteFailures :
          /\ lastError' = err
          /\ toasts' = {DeleteErrorToast(err)}
    /\ messages' = DeleteFlag(messages, deletes[i].id, FALSE)
    /\ deletes' = RemoveAt(deletes, i)
    /\ editing' = Unmount(editing, messages')
    /\ UNCHANGED << chats, selectedChatId, typingUsers, messagesLoading,
                    hasMoreMessages, messagesOffset, typingTimeoutRef, limit,
                    now, timers, sinceTyping, fetches, sends, edits, markReads,
                    srv, nextId, evq, calls, gw, shouldAutoScroll, lastScroll,
                    svc, db, onlineUsers, lastStatus, removed, crm, pw >>

\* ---------------------------------------------------- MainChat: onTyping
\* clearTimeout(handle).
ClearTimeout(ts, handle) == {t \in ts : t.id # handle}

\* The handle setTimeout returns: one that no pending timer carries.
NewHandle(ts) ==
    CHOOSE h \in 1..(Cardinality(ts) + 1) : \A t \in ts : t.id # h

\* Mutant: the previous timer of the user is left pending.
ArmTimerLeaks(ts, existingTimeout, userId) ==
    [timers |-> ts \cup {[id |-> NewHandle(ts), userId |-> userId,
                          left |-> TYPING_TIMEOUT]},
     handle |-> NewHandle(ts)]

\* Mutant: the previous timer is cleared and no new one is armed.
ArmTimerClearsOnly(ts, existingTimeout, userId) ==
    [timers |-> IF existingTimeout # 0
                THEN ClearTimeout(ts, existingTimeout) ELSE ts,
     handle |-> 0]

\* typing-started (MainChat.tsx 355-369): the user's previous timer is
\* cleared, a new one is armed and stored in typingTimeoutRef.
ArmTimer(ts, existingTimeout, userId) ==
    LET cleared == IF existingTimeout # 0
                   THEN ClearTimeout(ts, existingTimeout) ELSE ts
        handle  == NewHandle(cleared)
    IN  [timers |-> cleared \cup {[id |-> handle, userId |-> userId,
                                   left |-> TYPING_TIMEOUT]},
         handle |-> handle]

\* Mutant: typing-stopped forgets the timer without cancelling it.
DisarmTimerKeeps(ts, existingTimeout) == ts

\* typing-stopped (MainChat.tsx 377-381).
DisarmTimer(ts, existingTimeout) ==
    IF existingTimeout # 0 THEN ClearTimeout(ts, existingTimeout) ELSE ts

\* onTyping (MainChat.tsx 349-383) for one typing event of the socket.
OnTyping(chatId, userId, isTyping) ==
    /\ calls["typing"] > 0
    /\ calls' = [calls EXCEPT !["typing"] = @ - 1]
    /\ IF chatId # selectedChatId
       THEN UNCHANGED << typingUsers, timers, typingTimeoutRef, sinceTyping >>
       ELSE IF isTyping
       THEN LET armed == ArmTimer(timers, typingTimeoutRef[userId], userId)
            IN  /\ typingUsers' = typingUsers \cup {userId}
                /\ timers' = armed.timers
                /\ typingTimeoutRef' =
                       [typingTimeoutRef EXCEPT ![userId] = armed.handle]
                /\ sinceTyping' = [sinceTyping EXCEPT ![userId] = 0]
       ELSE /\ typingUsers' = typingUsers \ {userId}
            /\ timers' = DisarmTimer(timers, typingTimeoutRef[userId])
            /\ typingTimeoutRef' = [typingTimeoutRef EXCEPT ![userId] = 0]
            /\ UNCHANGED sinceTyping
    /\ UNCHANGED << chats, selectedChatId, messages, messagesLoading,
                    hasMoreMessages, messagesOffset, toasts, limit, now,
                    fetches, sends, edits, deletes, markReads, srv, nextId, evq,
                    gw, shouldAutoScroll, lastScroll, editing, lastError, svc,
                    db, onlineUsers, lastStatus, removed, crm, pw >>

\* The callback of setTimeout (MainChat.tsx 360-367) once its delay is over.
TimerFire(t) ==
    /\ t \in timers
    /\ t.left = 0
    /\ typingUsers' = typingUsers \ {t.userId}
    /\ typingTimeoutRef' = [typingTimeoutRef EXCEPT ![t.userId] = 0]
    /\ timers' = timers \ {t}
    /\ UNCHANGED << chats, selectedChatId, messages, messagesLoading,
                    hasMoreMessages, messagesOffset, toasts, limit, now,
                    sinceTyping, fetches, sends, edits, deletes, markReads, srv,
                    nextId, evq, calls, gw, shouldAutoScroll, lastScroll,
                    editing, lastError, svc, db, onlineUsers, lastStatus,
                    removed, crm, pw >>

TimerFireAny == \E t \in timers : TimerFire(t)

\* One second passes.
Tick ==
    /\ \E t \in timers : t.left > 0
    /\ timers' = {[t EXCEPT !.left = IF @ > 0 THEN @ - 1 ELSE 0] : t \in timers}
    /\ sinceTyping' = [u \in Users |-> Min(sinceTyping[u] + 1, TYPING_TIMEOUT)]
    /\ UNCHANGED << chats, selectedChatId, messages, typingUsers,
                    messagesLoading, hasMoreMessages, messagesOffset,
                    typingTimeoutRef, toasts, limit, now, fetches, sends, edits,
                    deletes, markReads, srv, nextId, evq, calls, gw,
                    shouldAutoScroll, lastScroll, editing, lastError, svc, db,
                    onlineUsers, lastStatus, removed, crm, pw >>

\* ------------------------------------------ MessageItem: editing
\* Time is counted in minutes here: message.timestamp and Date.now().
\* Mutant: a message of exactly EDIT_WINDOW minutes can still be edited.
CanEditInclusive(m, now_) ==
    m.senderId = Me /\ now_ - m.timestamp <= EDIT_WINDOW

\* canEdit (MessageWindow.tsx 67-73); isMine is
\* message.senderId === currentUserId (MessageWindow.tsx 478).
CanEdit(m, now_) ==
    m.senderId = Me /\ now_ - m.timestamp < EDIT_WINDOW

IsEditing(messageId) == \E e \in editing : e.id = messageId

ItemOf(messageId) == CHOOSE e \in editing : e.id = messageId

\* The edit entry of the menu is rendered (MessageWindow.tsx 280, 291).
EditOffered(m) ==
    m.status # "sending" /\ ~IsEditing(m.id) /\ CanEdit(m, now)

\* handleEditStart (MessageWindow.tsx 94-99), called from the menu.
\* startAge records the age of the message at that moment.
HandleEditStart(messageId) ==
    /\ HasId(messages, messageId)
    /\ EditOffered(Shown(messageId))
    /\ editing' = editing \cup
          {[id |-> messageId, editContent |-> Shown(messageId).content,
            editLoading |-> FALSE,
            startAge |-> now - Shown(messageId).timestamp]}
    /\ UNCHANGED << chats, selectedChatId, messages, typingUsers,
                    messagesLoading, hasMoreMessages, messagesOffset,
                    typingTimeoutRef, toasts, limit, now, timers, sinceTyping,
                    fetches, sends, edits, deletes, markReads, srv, nextId, evq,
                    calls, gw, shouldAutoScroll, lastScroll, lastError, svc, db,
                    onlineUsers, lastStatus, removed, crm, pw >>

\* onChange of the textarea (MessageWindow.tsx 185), disabled while saving.
HandleEditChange(messageId, text) ==
    /\ HasId(messages, messageId)
    /\ IsEditing(messageId)
    /\ ~ItemOf(messageId).editLoading
    /\ editing' = StopEditing(editing, messageId) \cup
                     {[ItemOf(messageId) EXCEPT !.editContent = text]}
    /\ UNCHANGED << chats, selectedChatId, messages, typingUsers,
                    messagesLoading, hasMoreMessages, messagesOffset,
                    typingTimeoutRef, toasts, limit, now, timers, sinceTyping,
                    fetches, sends, edits, deletes, markReads, srv, nextId, evq,
                    calls, gw, shouldAutoScroll, lastScroll, lastError, svc, db,
                    onlineUsers, lastStatus, removed, crm, pw >>

\* handleEditCancel (MessageWindow.tsx 122-125), disabled while saving.
HandleEditCancel(messageId) ==
    /\ HasId(messages, messageId)
    /\ IsEditing(messageId)
    /\ ~ItemOf(messageId).editLoading
    /\ editing' = StopEditing(editing, messageId)
    /\ UNCHANGED << chats, selectedChatId, messages, typingUsers,
                    messagesLoading, hasMoreMessages, messagesOffset,
                    typingTimeoutRef, toasts, limit, now, timers, sinceTyping,
                    fetches, sends, edits, deletes, markReads, srv, nextId, evq,
                    calls, gw, shouldAutoScroll, lastScroll, lastError, svc, db,
                    onlineUsers, lastStatus, removed, crm, pw >>

\* String.prototype.trim on the contents the model uses.
Trim(s) ==
    CASE s = " x" -> "x"
      [] s = "x " -> "x"
      [] s = " "  -> ""
      [] OTHER    -> s

\* Mutant: handleEditSave compares the contents as they are.
SameContentExact(a, b) == a = b

\* editContent.trim() === message.content.trim() (MessageWindow.tsx 102).
SameContent(a, b) == Trim(a) = Trim(b)

\* handleEditSave up to its await (MessageWindow.tsx 101-109); onEditMessage
\* is handleEditMessage.
HandleEditSave(messageId) ==
    /\ HasId(messages, messageId)
    /\ IsEditing(messageId)
    /\ ~ItemOf(messageId).editLoading
    /\ IF SameContent(ItemOf(messageId).editContent, Shown(messageId).content)
       THEN /\ editing' = StopEditing(editing, messageId)
            /\ UNCHANGED << calls, messages, edits >>
       ELSE /\ editing' = StopEditing(editing, messageId) \cup
                             {[ItemOf(messageId) EXCEPT !.editLoading = TRUE]}
            /\ EditRequest(messageId, Trim(ItemOf(messageId).editContent))
    /\ UNCHANGED << chats, selectedChatId, typingUsers, messagesLoading,
                    hasMoreMessages, messagesOffset, typingTimeoutRef, toasts,
                    limit, now, timers, sinceTyping, fetches, sends, deletes,
                    markReads, srv, nextId, evq, gw, shouldAutoScroll,
                    lastScroll, lastError, svc, db, onlineUsers, lastStatus,
                    removed, crm, pw >>

\* Date.now() has moved on.
ClockAdvance(t) ==
    /\ t > now
    /\ now' = t
    /\ UNCHANGED << chats, selectedChatId, messages, typingUsers,
                    messagesLoading, hasMoreMessages, messagesOffset,
                    typingTimeoutRef, toasts, limit, timers, sinceTyping,
                    fetches, sends, edits, deletes, markReads, srv, nextId, evq,
                    calls, gw, shouldAutoScroll, lastScroll, editing, lastError,
                    svc, db, onlineUsers, lastStatus, removed, crm, pw >>

\* ------------------------------------------ MessageWindow: scrolling
NoScroll == 0 - 1

\* Mutant: a distance of exactly the threshold still counts as near.
IsNearBottomInclusive(distance) == distance <= SCROLL_THRESHOLD

\* isNearBottom (MessageWindow.tsx 430); distance is
\* scrollHeight - scrollTop - clientHeight.
IsNearBottom(distance) == distance < SCROLL_THRESHOLD

\* handleScroll (MessageWindow.tsx 426-436) with onLoadMore, which is
\* handleLoadMoreMessages (MainChat.tsx 110-114).  The scroll container
\* exists only when the list is not empty.
HandleScroll(scrollTop, distance) ==
    /\ selectedChatId # NoChat
    /\ Len(messages) > 0
    /\ shouldAutoScroll' = IsNearBottom(distance)
    /\ lastScroll' = distance
    /\ IF scrollTop < SCROLL_THRESHOLD /\ hasMoreMessages /\ ~messagesLoading
       THEN /\ calls["more"] > 0
            /\ LoadMessagesStart(selectedChatId, messagesOffset, FALSE)
       ELSE UNCHANGED << messagesLoading, fetches, calls >>
    /\ UNCHANGED << chats, selectedChatId, messages, typingUsers,
                    hasMoreMessages, messagesOffset, typingTimeoutRef, toasts,
                    limit, now, timers, sinceTyping, sends, edits, deletes,
                    markReads, srv, nextId, evq, gw, editing, lastError, svc,
                    db, onlineUsers, lastStatus, removed, crm, pw >>

\* The effect of MessageWindow.tsx 420-424 runs after a step that changed
\* the list or the flag, and scrolls to the end when the flag is set.
AutoScrolls ==
    /\ messages' # messages \/ shouldAutoScroll' # shouldAutoScroll
    /\ shouldAutoScroll'

\* ------------------------------------------ Message Mutation Gateway (4.1)
\* The routes of the gateway are not part of the sources.  Edit and Delete
\* are modelled from section 4.1 of the specification on a store of their
\* own: it keeps what the rules read (creation time, deleted markers), which
\* the store of the client model above leaves out.  Time is counted in
\* minutes.  The specification fixes no precedence among the rejections of
\* a request; a request that several rules reject gets any one of them.
Admin == "admin"

GwAbsentId == 3

NoReply == [op |-> "none", id |-> 0, code |-> ""]

\* null and undefined: the value of an absent content or media.
Null == "<null>"

\* No send is under way: the client holds no temporary record, no request
\* is on its way.
NoSend == [content |-> "", media |-> ""]

GwMessage(sender, content, createdAt) ==
    [sender |-> sender, content |-> content, createdAt |-> createdAt,
     editedAt |-> 0 - 1, deleted |-> FALSE, deletedFor |-> {},
     media |-> Null]

\* Message 1 is the user's and nears the end of its edit window, message 2
\* is another participant's and new.
GwStart == EDIT_WINDOW - MaxLate

GwInit ==
    [store  |-> [i \in {1, 2} |->
                    IF i = 1 THEN GwMessage(Me, "x", 0)
                    ELSE GwMessage(Other, "y", GwStart)],
     now    |-> GwStart,
     reply  |-> NoReply,
     events |-> << >>,
     calls  |-> MaxGateway,
     tempMessage |-> NoSend,
     request     |-> NoSend,
     phase       |-> "idle"]

\* Mutant: the time rule is not applied.
WindowOpenAlways(now_, createdAt) == TRUE

\* Time rule: permitted while (now - creation timestamp) < 15 minutes.
WindowOpen(now_, createdAt) == now_ - createdAt < EDIT_WINDOW

\* The rejections that apply to Edit(messageId, editorId, newContent).
EditErrors(store, now_, id, editor, content) ==
    IF id \notin DOMAIN store \/ store[id].deleted THEN {"NotFound"}
    ELSE {e \in {"Forbidden", "EditTimeout", "ValidationError"} :
            \/ e = "Forbidden" /\ editor # store[id].sender
            \/ e = "EditTimeout" /\ ~WindowOpen(now_, store[id].createdAt)
            \/ e = "ValidationError" /\ Trim(content) = ""}

GwReply(op, id, code) == [op |-> op, id |-> id, code |-> code]

\* Edit: rejected, or a no-op returning the original, or the write and the
\* message-edited event.
GatewayEdit(id, editor, content) ==
    /\ gw.calls > 0
    /\ LET errs == EditErrors(gw.store, gw.now, id, editor, content)
       IN  IF errs # {}
           THEN \E e \in errs :
                   gw' = [gw EXCEPT !.calls = @ - 1,
                                    !.reply = GwReply("edit", id, e)]
           ELSE IF Trim(content) = Trim(gw.store[id].content)
           THEN gw' = [gw EXCEPT !.calls = @ - 1,
                                 !.reply = GwReply("edit", id, "ok")]
           ELSE gw' = [gw EXCEPT
                         !.calls = @ - 1,
                         !.reply = GwReply("edit", id, "ok"),
                         !.store[id].content = content,
                         !.store[id].editedAt = gw.now,
                         !.events = Append(@, [type |-> "edited", id |-> id,
                                               content |-> content])]
    /\ UNCHANGED << chats, selectedChatId, messages, typingUsers,
                    messagesLoading, hasMoreMessages, messagesOffset,
                    typingTimeoutRef, toasts, limit, now, timers, sinceTyping,
                    fetches, sends, edits, deletes, markReads, srv, nextId, evq,
                    calls, shouldAutoScroll, lastScroll, editing, lastError,
                    svc, db, onlineUsers, lastStatus, removed, crm, pw >>

\* Mutant: a repeated delete is not recognised.
AlreadyDeletedNever(m, requester) == FALSE

\* The message is deleted for everyone or for this requester.
AlreadyDeleted(m, requester) == m.deleted \/ requester \in m.deletedFor

\* The rejections that apply to Delete(messageId, requesterId, forAll).
DeleteErrors(store, now_, id, requester, forAll) ==
    IF id \notin DOMAIN store THEN {"NotFound"}
    ELSE {e \in {"AlreadyDeleted", "Forbidden", "DeleteTimeout"} :
            \/ e = "AlreadyDeleted" /\ AlreadyDeleted(store[id], requester)
            \/ e = "Forbidden" /\ forAll /\ requester # store[id].sender
                               /\ requester # Admin
            \/ e = "DeleteTimeout" /\ requester # Admin
                                   /\ ~WindowOpen(now_, store[id].createdAt)}

\* Delete: rejected, or the message is marked deleted (for all, or for the
\* requester) and message-deleted is published.
GatewayDelete(id, requester, forAll) ==
    /\ gw.calls > 0
    /\ LET errs == DeleteErrors(gw.store, gw.now, id, requester, forAll)
       IN  IF errs # {}
           THEN \E e \in errs :
                   gw' = [gw EXCEPT !.calls = @ - 1,
                                    !.reply = GwReply("delete", id, e)]
           ELSE gw' = [gw EXCEPT
                         !.calls = @ - 1,
                         !.reply = GwReply("delete", id, "ok"),
                         !.store[id].deleted = @ \/ forAll,
                         !.store[id].deletedFor =
                             IF forAll THEN @ ELSE @ \cup {requester},
                         !.events = Append(@, [type |-> "deleted", id |-> id,
                                               content |-> ""])]
    /\ UNCHANGED << chats, selectedChatId, messages, typingUsers,
                    messagesLoading, hasMoreMessages, messagesOffset,
                    typingTimeoutRef, toasts, limit, now, timers, sinceTyping,
                    fetches, sends, edits, deletes, markReads, srv, nextId, evq,
                    calls, shouldAutoScroll, lastScroll, editing, lastError,
                    svc, db, onlineUsers, lastStatus, removed, crm, pw >>

\* A minute passes at the gateway.
GatewayTick ==
    /\ gw.now < EDIT_WINDOW + MaxLate
    /\ gw' = [gw EXCEPT !.now = @ + 1]
    /\ UNCHANGED << chats, selectedChatId, messages, typingUsers,
                    messagesLoading, hasMoreMessages, messagesOffset,
                    typingTimeoutRef, toasts, limit, now, timers, sinceTyping,
                    fetches, sends, edits, deletes, markReads, srv, nextId, evq,
                    calls, shouldAutoScroll, lastScroll, editing, lastError,
                    svc, db, onlineUsers, lastStatus, removed, crm, pw >>

\* ---- One send, followed through the client and the gateway ----
\* handleSendMessage and Send(chatId, senderId, content?, media?), kept to
\* what they do with the content and the media of the message.

\* The URL the media store answers an upload with.
MediaUrl == "url"

\* content || undefined: the content of the request.
RequestContent(content) == IF content = "" THEN Null ELSE content

\* A content or media that is missing: null, undefined or the empty string.
IsAbsent(v) == v = Null \/ v = ""

\* The message has content or media.
HasContentOrMedia(m) == ~IsAbsent(m.content) \/ ~IsAbsent(m.media)

\* The content and media of tempMessage: content as typed, media: null.
TempMessageOf(content) == [content |-> content, media |-> Null]

\* The validation of Send: rejected if both content and media are absent.
SendRejection(content, media) ==
    IF IsAbsent(content) /\ IsAbsent(media) THEN "ValidationError" ELSE "ok"

\* handleSendMessage(content, mediaFile) up to its first await: the temporary
\* record is appended, then the upload or the request is started.
SendBegin(content, mediaFile) ==
    /\ gw.calls > 0
    /\ gw.phase = "idle"
    /\ gw' = [gw EXCEPT
                !.calls = @ - 1,
                !.tempMessage = TempMessageOf(content),
                !.request = [content |-> RequestContent(content),
                             media |-> Null],
                !.phase = IF mediaFile THEN "upload" ELSE "request"]
    /\ UNCHANGED << chats, selectedChatId, messages, typingUsers,
                    messagesLoading, hasMoreMessages, messagesOffset,
                    typingTimeoutRef, toasts, limit, now, timers, sinceTyping,
                    fetches, sends, edits, deletes, markReads, srv, nextId, evq,
                    calls, shouldAutoScroll, lastScroll, editing, lastError,
                    svc, db, onlineUsers, lastStatus, removed, crm, pw >>

\* api.media.upload fulfils: the request carries the uploaded media.
SendUploadOk ==
    /\ gw.phase = "upload"
    /\ gw' = [gw EXCEPT !.request.media = MediaUrl, !.phase = "request"]
    /\ UNCHANGED << chats, selectedChatId, messages, typingUsers,
                    messagesLoading, hasMoreMessages, messagesOffset,
                    typingTimeoutRef, toasts, limit, now, timers, sinceTyping,
                    fetches, sends, edits, deletes, markReads, srv, nextId, evq,
                    calls, shouldAutoScroll, lastScroll, editing, lastError,
                    svc, db, onlineUsers, lastStatus, removed, crm, pw >>

\* api.media.upload rejects: the temporary record is removed, nothing is sent.
SendUploadFail ==
    /\ gw.phase = "upload"
    /\ gw' = [gw EXCEPT !.tempMessage = NoSend, !.request = NoSend,
                        !.phase = "idle"]
    /\ UNCHANGED << chats, selectedChatId, messages, typingUsers,
                    messagesLoading, hasMoreMessages, messagesOffset,
                    typingTimeoutRef, toasts, limit, now, timers, sinceTyping,
                    fetches, sends, edits, deletes, markReads, srv, nextId, evq,
                    calls, shouldAutoScroll, lastScroll, editing, lastError,
                    svc, db, onlineUsers, lastStatus, removed, crm, pw >>

\* Send at the gateway: validation, then the message is stored and published.
GatewaySend ==
    /\ gw.phase = "request"
    /\ LET rej == SendRejection(gw.request.content, gw.request.media)
           id  == Len(gw.store) + 1
       IN  IF rej # "ok"
           THEN gw' = [gw EXCEPT !.reply = GwReply("send", 0, rej),
                                 !.phase = "reply"]
           ELSE gw' = [gw EXCEPT
                         !.reply = GwReply("send", id, "ok"),
                         !.phase = "reply",
                         !.store = Append(@,
                             [GwMessage(Me, gw.request.content, gw.now)
                                 EXCEPT !.media = gw.request.media]),
                         !.events = Append(@, [type |-> "created", id |-> id,
                                               content |-> gw.request.content])]
    /\ UNCHANGED << chats, selectedChatId, messages, typingUsers,
                    messagesLoading, hasMoreMessages, messagesOffset,
                    typingTimeoutRef, toasts, limit, now, timers, sinceTyping,
                    fetches, sends, edits, deletes, markReads, srv, nextId, evq,
                    calls, shouldAutoScroll, lastScroll, editing, lastError,
                    svc, db, onlineUsers, lastStatus, removed, crm, pw >>

\* The continuation of handleSendMessage: the temporary record is replaced
\* by the stored message, or removed in the catch.
SendSettle ==
    /\ gw.phase = "reply"
    /\ gw' = [gw EXCEPT !.tempMessage = NoSend, !.request = NoSend,
                        !.phase = "idle"]
    /\ UNCHANGED << chats, selectedChatId, messages, typingUsers,
                    messagesLoading, hasMoreMessages, messagesOffset,
                    typingTimeoutRef, toasts, limit, now, timers, sinceTyping,
                    fetches, sends, edits, deletes, markReads, srv, nextId, evq,
                    calls, shouldAutoScroll, lastScroll, editing, lastError,
                    svc, db, onlineUsers, lastStatus, removed, crm, pw >>

\* ------------------------------------------ api service (services/api)
\* The module services/api is not part of the sources; its tests are
\* (__tests__/services).  Each operation passes its arguments to request()
\* of utils/apiClient, which the tests replace by a mock.  The handling of
\* a rejection is modelled from section 7 of the specification; the cases
\* of the tests are the table ServiceTests.
Operations ==
    {"messages.send", "messages.list", "messages.edit", "messages.delete",
     "chats.create", "chats.list", "chats.get", "chats.markAsRead",
     "auth.register", "auth.verifyEmail", "auth.login", "auth.logout"}

UnexpectedError == "Unexpected error"

ApiError(message) == [typed |-> TRUE, message |-> message]

PlainError(message) == [typed |-> FALSE, message |-> message]

\* What request() rejects with in the model.
Rejections ==
    {ApiError("Message already deleted"), ApiError("Chat not found"),
     ApiError("Unexpected error"), PlainError("Network error"),
     PlainError("Chat not found")}

\* What the tests make request() reject with, and what they expect the
\* operation to throw.
TestCase(op, err, thrown) == [op |-> op, err |-> err, thrown |-> thrown]

ServiceTests ==
    {TestCase(op, PlainError("Network error"), "Unexpected error") :
        op \in Operations}
    \cup
    {TestCase("messages.send", ApiError("Chat not found"), "Chat not found"),
     TestCase("messages.list", ApiError("Unauthorized"), "Unauthorized"),
     TestCase("messages.edit", ApiError("Message not found"),
              "Message not found"),
     TestCase("messages.delete", ApiError("Message already deleted"),
              "Message already deleted"),
     TestCase("chats.create", ApiError("Forbidden"), "Forbidden"),
     TestCase("chats.list", ApiError("Internal server error"),
              "Internal server error"),
     TestCase("chats.get", ApiError("Access denied to this chat"),
              "Access denied to this chat"),
     TestCase("chats.markAsRead", ApiError("Access denied"), "Access denied"),
     TestCase("auth.register", ApiError("Email already exists"),
              "Email already exists"),
     TestCase("auth.verifyEmail", ApiError("Invalid verification code"),
              "Invalid verification code"),
     TestCase("auth.login", ApiError("Please verify your email first"),
              "Please verify your email first"),
     TestCase("auth.logout", ApiError("Internal server error"),
              "Internal server error")}

\* Mutant: every error is passed on as it is.
ThrownMessageVerbatim(err) == err.message

\* The message of the error an operation throws when request() rejected.
ThrownMessage(err) ==
    IF err.typed THEN err.message ELSE UnexpectedError

NoCall == "none"

\* tokenStorage of utils/apiClient: the access and the refresh token.
NoTokens == [access |-> "", refresh |-> ""]

\* The tokens the responses of the auth tests carry.
TokenPairs ==
    {[access |-> "access-token-123", refresh |-> "refresh-token-123"],
     [access |-> "access-token-456", refresh |-> "refresh-token-456"]}

StoresTokens(op) == op \in {"auth.login", "auth.verifyEmail"}

\* Mutant: only the access token of the response is stored.
TokensAfterFulfilAccessOnly(op, stored, resp) ==
    IF StoresTokens(op) THEN [stored EXCEPT !.access = resp.access]
    ELSE IF op = "auth.logout" THEN NoTokens
    ELSE stored

\* Token storage after request() fulfilled: login and verifyEmail call
\* setAccessToken and setRefreshToken, logout calls clearTokens.
TokensAfterFulfil(op, stored, resp) ==
    IF StoresTokens(op) THEN resp
    ELSE IF op = "auth.logout" THEN NoTokens
    ELSE stored

\* Mutant: a failed logout keeps the tokens.
TokensAfterRejectKeeps(op, stored) == stored

\* Token storage after request() rejected: logout calls clearTokens all
\* the same, no other operation touches the storage.
TokensAfterReject(op, stored) ==
    IF op = "auth.logout" THEN NoTokens ELSE stored

\* held: the token storage when the operation was called.
SvcInit ==
    [op |-> NoCall, phase |-> "idle", requests |-> 0,
     err |-> PlainError(""), thrown |-> "", calls |-> MaxService,
     tokens |-> NoTokens, held |-> NoTokens]

\* An operation of the service is called and calls request().
ServiceCall(op) ==
    /\ svc.calls > 0
    /\ svc.phase # "pending"
    /\ svc' = [svc EXCEPT !.op = op, !.phase = "pending", !.requests = 1,
                          !.err = PlainError(""), !.thrown = "",
                          !.calls = @ - 1, !.held = svc.tokens]
    /\ UNCHANGED << chats, selectedChatId, messages, typingUsers,
                    messagesLoading, hasMoreMessages, messagesOffset,
                    typingTimeoutRef, toasts, limit, now, timers, sinceTyping,
                    fetches, sends, edits, deletes, markReads, srv, nextId, evq,
                    calls, gw, shouldAutoScroll, lastScroll, editing, lastError,
                    db, onlineUsers, lastStatus, removed, crm, pw >>

\* request() fulfils: the operation returns the response.
ServiceFulfil(resp) ==
    /\ svc.phase = "pending"
    /\ svc' = [svc EXCEPT !.phase = "fulfilled",
                          !.tokens = TokensAfterFulfil(svc.op, @, resp)]
    /\ UNCHANGED << chats, selectedChatId, messages, typingUsers,
                    messagesLoading, hasMoreMessages, messagesOffset,
                    typingTimeoutRef, toasts, limit, now, timers, sinceTyping,
                    fetches, sends, edits, deletes, markReads, srv, nextId, evq,
                    calls, gw, shouldAutoScroll, lastScroll, editing, lastError,
                    db, onlineUsers, lastStatus, removed, crm, pw >>

\* request() rejects: the operation throws, and does not call again.
ServiceReject(err) ==
    /\ svc.phase = "pending"
    /\ svc' = [svc EXCEPT !.phase = "rejected", !.err = err,
                          !.thrown = ThrownMessage(err),
                          !.tokens = TokensAfterReject(svc.op, @)]
    /\ UNCHANGED << chats, selectedChatId, messages, typingUsers,
                    messagesLoading, hasMoreMessages, messagesOffset,
                    typingTimeoutRef, toasts, limit, now, timers, sinceTyping,
                    fetches, sends, edits, deletes, markReads, srv, nextId, evq,
                    calls, gw, shouldAutoScroll, lastScroll, editing, lastError,
                    db, onlineUsers, lastStatus, removed, crm, pw >>

\* ------------------------------------------ server: routes/chats.ts
\* The Chat collection with the participants and the unreadCount map of
\* each chat, and the requests of POST /:chatId/read between findById and
\* findByIdAndUpdate.  Chat ids a request may carry: those of the stored
\* chats, a well-formed id of no chat, and a malformed one.
MissingId == "Z"

MalformedId == "bad"

ChatIds == Chats \cup {MissingId, MalformedId}

\* Types.ObjectId.isValid(chatId)
IsValidId(chatId) == chatId # MalformedId

NoRouteReply == [op |-> "none", chatId |-> "", user |-> "", code |-> "",
                 unreadCount |-> << >>]

\* Chat A: both counters stored.  Chat B: no counter stored for u3.
DbInit ==
    [chats |-> [c \in Chats |->
                  IF c = "A"
                  THEN [participants |-> {Me, Other},
                        unreadCount |-> (Me :> 2 @@ Other :> 0)]
                  ELSE [participants |-> {Me, "u3"},
                        unreadCount |-> (Me :> 1)]],
     reads |-> << >>,
     reply |-> NoRouteReply,
     calls |-> MaxRoute]

\* getUnreadCount (chats.ts 33-41): the stored number, or 0.
GetUnreadCount(unreadCount, userId) ==
    IF userId \in DOMAIN unreadCount THEN unreadCount[userId] ELSE 0

\* The checks both routes make, in their order (chats.ts 319-345, 401-416).
RouteCheck(store, chatId, user) ==
    IF ~IsValidId(chatId) THEN "BadRequest"
    ELSE IF chatId \notin DOMAIN store THEN "NotFound"
    ELSE IF user \notin store[chatId].participants THEN "Forbidden"
    ELSE "ok"

RouteReply(op, chatId, user, code, unread) ==
    [op |-> op, chatId |-> chatId, user |-> user, code |-> code,
     unreadCount |-> unread]

\* Mutant: the response carries the stored map as it is.
UnreadCountObjStored(chat) == chat.unreadCount

\* unreadCountObj of GET /:chatId (chats.ts 351-359).
UnreadCountObj(chat) ==
    [p \in chat.participants |-> GetUnreadCount(chat.unreadCount, p)]

\* GET /api/chats/:chatId (chats.ts 311-390).
GetChat(chatId, user) ==
    /\ db.calls > 0
    /\ LET code == RouteCheck(db.chats, chatId, user)
       IN  db' = [db EXCEPT
                    !.calls = @ - 1,
                    !.reply = RouteReply("get", chatId, user, code,
                                 IF code = "ok"
                                 THEN UnreadCountObj(db.chats[chatId])
                                 ELSE << >>)]
    /\ UNCHANGED << chats, selectedChatId, messages, typingUsers,
                    messagesLoading, hasMoreMessages, messagesOffset,
                    typingTimeoutRef, toasts, limit, now, timers, sinceTyping,
                    fetches, sends, edits, deletes, markReads, srv, nextId, evq,
                    calls, gw, shouldAutoScroll, lastScroll, editing, lastError,
                    svc, onlineUsers, lastStatus, removed, crm, pw >>

\* POST /api/chats/:chatId/read up to findByIdAndUpdate (chats.ts 393-416).
PostReadFind(chatId, user) ==
    /\ db.calls > 0
    /\ LET code == RouteCheck(db.chats, chatId, user)
       IN  IF code = "ok"
           THEN db' = [db EXCEPT
                         !.calls = @ - 1,
                         !.reads = Append(@, [chatId |-> chatId,
                                              user |-> user])]
           ELSE db' = [db EXCEPT
                         !.calls = @ - 1,
                         !.reply = RouteReply("read", chatId, user, code,
                                              << >>)]
    /\ UNCHANGED << chats, selectedChatId, messages, typingUsers,
                    messagesLoading, hasMoreMessages, messagesOffset,
                    typingTimeoutRef, toasts, limit, now, timers, sinceTyping,
                    fetches, sends, edits, deletes, markReads, srv, nextId, evq,
                    calls, gw, shouldAutoScroll, lastScroll, editing, lastError,
                    svc, onlineUsers, lastStatus, removed, crm, pw >>

\* Mutant: the whole map is reset.
SetUnreadZeroAll(unreadCount, userId) ==
    [u \in DOMAIN unreadCount \cup {userId} |-> 0]

\* $set: { [`unreadCount.${currentUserId}`]: 0 } (chats.ts 418-420).
SetUnreadZero(unreadCount, userId) ==
    [u \in DOMAIN unreadCount \cup {userId} |->
        IF u = userId THEN 0 ELSE unreadCount[u]]

\* findByIdAndUpdate and the response (chats.ts 418-422).
PostReadUpdate(i) ==
    /\ i \in 1..Len(db.reads)
    /\ LET r == db.reads[i]
       IN  db' = [db EXCEPT
                    !.chats[r.chatId].unreadCount = SetUnreadZero(@, r.user),
                    !.reads = RemoveAt(@, i),
                    !.reply = RouteReply("read", r.chatId, r.user, "ok",
                                         << >>)]
    /\ UNCHANGED << chats, selectedChatId, messages, typingUsers,
                    messagesLoading, hasMoreMessages, messagesOffset,
                    typingTimeoutRef, toasts, limit, now, timers, sinceTyping,
                    fetches, sends, edits, deletes, markReads, srv, nextId, evq,
                    calls, gw, shouldAutoScroll, lastScroll, editing, lastError,
                    svc, onlineUsers, lastStatus, removed, crm, pw >>

\* A message for the chat is stored: the counter of a participant grows.
\* The route that does it is not part of the sources (section 4.1, Send).
DbIncrement(chatId, user) ==
    /\ chatId \in DOMAIN db.chats
    /\ user \in db.chats[chatId].participants
    /\ GetUnreadCount(db.chats[chatId].unreadCount, user) < MaxUnread
    /\ db' = [db EXCEPT !.chats[chatId].unreadCount =
                 [u \in DOMAIN @ \cup {user} |->
                     IF u = user THEN GetUnreadCount(@, user) + 1 ELSE @[u]]]
    /\ UNCHANGED << chats, selectedChatId, messages, typingUsers,
                    messagesLoading, hasMoreMessages, messagesOffset,
                    typingTimeoutRef, toasts, limit, now, timers, sinceTyping,
                    fetches, sends, edits, deletes, markReads, srv, nextId, evq,
                    calls, gw, shouldAutoScroll, lastScroll, editing, lastError,
                    svc, onlineUsers, lastStatus, removed, crm, pw >>

\* ------------------------------------------------------------ specification
NoLast == [content |-> "", senderId |-> "", timestamp |-> 0]

InitChats ==
    << [id |-> "A", lastMessage |-> NoLast,
        unreadCount |-> [u \in Users |-> 0]],
       [id |-> "B", lastMessage |-> NoLast,
        unreadCount |-> [u \in Users |-> IF u = Me THEN 1 ELSE 2]] >>

\* ---- Presence: the user-status event and its two subscribers ----
Statuses == {"online", "offline"}

\* No user-status event has named the user yet.
NoStatus == "none"

\* Mutant: an 'online' event for a user already in the set takes the user out.
ApplyUserStatusToggle(prev, userId, status) ==
    IF status = "online" /\ userId \notin prev THEN prev \cup {userId}
    ELSE prev \ {userId}

\* The update both subscribers pass to setOnlineUsers: a copy of the set
\* with the user added on 'online' and deleted otherwise.
ApplyUserStatus(prev, userId, status) ==
    IF status = "online" THEN prev \cup {userId} ELSE prev \ {userId}

\* MessageWindow is rendered, and its effect subscribed, while a chat is open.
MessageWindowSubscribed == selectedChatId # NoChat

\* A user-status event: the subscriber of MainChat handles it, then the one
\* of MessageWindow if it is subscribed; the updates are applied in order.
OnUserStatus(userId, status) ==
    /\ LET once == ApplyUserStatus(onlineUsers, userId, status)
       IN  onlineUsers' = IF MessageWindowSubscribed
                          THEN ApplyUserStatus(once, userId, status)
                          ELSE once
    /\ lastStatus' = [lastStatus EXCEPT ![userId] = status]
    /\ UNCHANGED << chats, selectedChatId, messages, typingUsers,
                    messagesLoading, hasMoreMessages, messagesOffset,
                    typingTimeoutRef, toasts, limit, now, timers, sinceTyping,
                    fetches, sends, edits, deletes, markReads, srv, nextId, evq,
                    calls, gw, shouldAutoScroll, lastScroll, editing, lastError,
                    svc, db, removed, crm, pw >>

\* ---- Server: PATCH /api/users/me/password (routes/users.ts) ----
MaxPassword == 2
MaxLogin == 1

\* The account of the requests, and the id of a token whose user is gone.
PwUser == "u1"
GoneUser == "gone"

\* oldPassword and newPassword of the body; "" is a missing field, "weak" a
\* password AuthService.validatePassword refuses.
OldPasswords == {"", "Old1", "Wrong1"}
NewPasswords == {"", "weak", "New1", "New2"}

ValidatePassword(p) == p # "weak"

\* AuthService.hashPassword and comparePassword.
HashOf(p) == << "hash", p >>
ComparePassword(p, hash) == hash = HashOf(p)

NoPwReply == [code |-> "none", refreshToken |-> 0]

NoPwRequest == [user |-> "", old |-> "", new |-> "", phase |-> "idle"]

\* The user has logged in twice: two refresh tokens are stored.
PwInit ==
    [hash      |-> HashOf("Old1"),
     tokens    |-> {1, 2},
     nextToken |-> 3,
     req       |-> NoPwRequest,
     reply     |-> NoPwReply,
     calls     |-> MaxPassword,
     logins    |-> MaxLogin]

\* Mutant: the stored refresh tokens are kept.
InvalidateNone(tokens) == tokens

\* invalidateAllRefreshTokens(userId): no stored token of the user is left.
InvalidateAllRefreshTokens(tokens) == {}

\* setRefreshToken(userId, refreshToken): the token is stored.
SetRefreshToken(tokens, token) == tokens \cup {token}

PwReject(code) ==
    pw' = [pw EXCEPT !.reply = [code |-> code, refreshToken |-> 0],
                     !.req = NoPwRequest]

\* Mutant: only the old password is required.
MissingOldOnly(old, new) == old = ""

\* !oldPassword || !newPassword
MissingField(old, new) == old = "" \/ new = ""

\* The handler up to User.findById: the body is checked. The requests of the
\* account are served one after the other.
PwRequest(user, old, new) ==
    /\ pw.calls > 0
    /\ pw.req.phase = "idle"
    /\ IF MissingField(old, new) \/ ~ValidatePassword(new)
       THEN pw' = [pw EXCEPT !.calls = @ - 1,
                             !.reply = [code |-> "BadRequest",
                                        refreshToken |-> 0]]
       ELSE pw' = [pw EXCEPT !.calls = @ - 1,
                             !.reply = NoPwReply,
                             !.req = [user |-> user, old |-> old,
                                      new |-> new, phase |-> "find"]]
    /\ UNCHANGED << chats, selectedChatId, messages, typingUsers,
                    messagesLoading, hasMoreMessages, messagesOffset,
                    typingTimeoutRef, toasts, limit, now, timers, sinceTyping,
                    fetches, sends, edits, deletes, markReads, srv, nextId, evq,
                    calls, gw, shouldAutoScroll, lastScroll, editing, lastError,
                    svc, db, onlineUsers, lastStatus, removed, crm >>

\* User.findById answered, comparePassword started.
PwFind ==
    /\ pw.req.phase = "find"
    /\ IF pw.req.user # PwUser
       THEN PwReject("NotFound")
       ELSE pw' = [pw EXCEPT !.req.phase = "compare"]
    /\ UNCHANGED << chats, selectedChatId, messages, typingUsers,
                    messagesLoading, hasMoreMessages, messagesOffset,
                    typingTimeoutRef, toasts, limit, now, timers, sinceTyping,
                    fetches, sends, edits, deletes, markReads, srv, nextId, evq,
                    calls, gw, shouldAutoScroll, lastScroll, editing, lastError,
                    svc, db, onlineUsers, lastStatus, removed, crm >>

\* comparePassword answered, hashPassword started.
PwCompare ==
    /\ pw.req.phase = "compare"
    /\ IF ~ComparePassword(pw.req.old, pw.hash)
       THEN PwReject("Unauthorized")
       ELSE pw' = [pw EXCEPT !.req.phase = "update"]
    /\ UNCHANGED << chats, selectedChatId, messages, typingUsers,
                    messagesLoading, hasMoreMessages, messagesOffset,
                    typingTimeoutRef, toasts, limit, now, timers, sinceTyping,
                    fetches, sends, edits, deletes, markReads, srv, nextId, evq,
                    calls, gw, shouldAutoScroll, lastScroll, editing, lastError,
                    svc, db, onlineUsers, lastStatus, removed, crm >>

\* User.findByIdAndUpdate with the new hash.
PwUpdate ==
    /\ pw.req.phase = "update"
    /\ pw' = [pw EXCEPT !.hash = HashOf(pw.req.new),
                        !.req.phase = "invalidate"]
    /\ UNCHANGED << chats, selectedChatId, messages, typingUsers,
                    messagesLoading, hasMoreMessages, messagesOffset,
                    typingTimeoutRef, toasts, limit, now, timers, sinceTyping,
                    fetches, sends, edits, deletes, markReads, srv, nextId, evq,
                    calls, gw, shouldAutoScroll, lastScroll, editing, lastError,
                    svc, db, onlineUsers, lastStatus, removed, crm >>

\* invalidateAllRefreshTokens.
PwInvalidate ==
    /\ pw.req.phase = "invalidate"
    /\ pw' = [pw EXCEPT !.tokens = InvalidateAllRefreshTokens(@),
                        !.req.phase = "store"]
    /\ UNCHANGED << chats, selectedChatId, messages, typingUsers,
                    messagesLoading, hasMoreMessages, messagesOffset,
                    typingTimeoutRef, toasts, limit, now, timers, sinceTyping,
                    fetches, sends, edits, deletes, markReads, srv, nextId, evq,
                    calls, gw, shouldAutoScroll, lastScroll, editing, lastError,
                    svc, db, onlineUsers, lastStatus, removed, crm >>

\* The new tokens are generated, the refresh token is stored, the reply sent.
PwStore ==
    /\ pw.req.phase = "store"
    /\ pw' = [pw EXCEPT !.tokens = SetRefreshToken(@, pw.nextToken),
                        !.nextToken = @ + 1,
                        !.reply = [code |-> "ok",
                                   refreshToken |-> pw.nextToken],
                        !.req = NoPwRequest]
    /\ UNCHANGED << chats, selectedChatId, messages, typingUsers,
                    messagesLoading, hasMoreMessages, messagesOffset,
                    typingTimeoutRef, toasts, limit, now, timers, sinceTyping,
                    fetches, sends, edits, deletes, markReads, srv, nextId, evq,
                    calls, gw, shouldAutoScroll, lastScroll, editing, lastError,
                    svc, db, onlineUsers, lastStatus, removed, crm >>

\* Between two requests the user logs in on another device.
PwLogin ==
    /\ pw.logins > 0
    /\ pw.req.phase = "idle"
    /\ pw' = [pw EXCEPT !.logins = @ - 1,
                        !.tokens = SetRefreshToken(@, pw.nextToken),
                        !.nextToken = @ + 1,
                        !.reply = NoPwReply]
    /\ UNCHANGED << chats, selectedChatId, messages, typingUsers,
                    messagesLoading, hasMoreMessages, messagesOffset,
                    typingTimeoutRef, toasts, limit, now, timers, sinceTyping,
                    fetches, sends, edits, deletes, markReads, srv, nextId, evq,
                    calls, gw, shouldAutoScroll, lastScroll, editing, lastError,
                    svc, db, onlineUsers, lastStatus, removed, crm >>

NextPassword ==
    \/ \E u \in {PwUser, GoneUser}, old \in OldPasswords, new \in NewPasswords :
          PwRequest(u, old, new)
    \/ PwFind
    \/ PwCompare
    \/ PwUpdate
    \/ PwInvalidate
    \/ PwStore
    \/ PwLogin

\* ---- CRM: the Users page and its handleDelete ----
MaxCrm == 2

\* The accounts loadUsers has put in the list.
CrmUsers == << "u1", "u2", "u3", "u4" >>

CrmInit ==
    [users   |-> CrmUsers,
     stored  |-> {CrmUsers[i] : i \in 1..Len(CrmUsers)},
     pending |-> << >>,
     alerts  |-> 0,
     calls   |-> MaxCrm]

\* setUsers(users.filter(u => u._id !== id)): users is the list of the render
\* in which handleDelete was called.
CrmAfterDelete(closed, id) ==
    SelectSeq(closed, LAMBDA u : u # id)

\* handleDelete(id) up to its await: confirmed by the admin, request sent.
\* The call keeps the users of the render it was made in.
CrmHandleDelete(id) ==
    /\ crm.calls > 0
    /\ \E k \in 1..Len(crm.users) : crm.users[k] = id
    /\ crm' = [crm EXCEPT
                  !.calls = @ - 1,
                  !.pending = Append(@, [id |-> id, users |-> crm.users,
                                         phase |-> "req"])]
    /\ UNCHANGED << chats, selectedChatId, messages, typingUsers,
                    messagesLoading, hasMoreMessages, messagesOffset,
                    typingTimeoutRef, toasts, limit, now, timers, sinceTyping,
                    fetches, sends, edits, deletes, markReads, srv, nextId, evq,
                    calls, gw, shouldAutoScroll, lastScroll, editing, lastError,
                    svc, db, onlineUsers, lastStatus, removed, pw >>

\* The server deletes the account.
CrmDeleteServer(i) ==
    /\ i \in 1..Len(crm.pending)
    /\ crm.pending[i].phase = "req"
    /\ crm' = [crm EXCEPT !.stored = @ \ {crm.pending[i].id},
                          !.pending[i].phase = "ok"]
    /\ UNCHANGED << chats, selectedChatId, messages, typingUsers,
                    messagesLoading, hasMoreMessages, messagesOffset,
                    typingTimeoutRef, toasts, limit, now, timers, sinceTyping,
                    fetches, sends, edits, deletes, markReads, srv, nextId, evq,
                    calls, gw, shouldAutoScroll, lastScroll, editing, lastError,
                    svc, db, onlineUsers, lastStatus, removed, pw >>

\* adminApi.deleteUser fulfilled: setUsers with the filtered list.
CrmDeleteOk(i) ==
    /\ i \in 1..Len(crm.pending)
    /\ crm.pending[i].phase = "ok"
    /\ crm' = [crm EXCEPT
                  !.users = CrmAfterDelete(crm.pending[i].users,
                                           crm.pending[i].id),
                  !.pending = RemoveAt(@, i)]
    /\ UNCHANGED << chats, selectedChatId, messages, typingUsers,
                    messagesLoading, hasMoreMessages, messagesOffset,
                    typingTimeoutRef, toasts, limit, now, timers, sinceTyping,
                    fetches, sends, edits, deletes, markReads, srv, nextId, evq,
                    calls, gw, shouldAutoScroll, lastScroll, editing, lastError,
                    svc, db, onlineUsers, lastStatus, removed, pw >>

\* adminApi.deleteUser rejected: alert('Failed to delete user').
CrmDeleteFail(i) ==
    /\ i \in 1..Len(crm.pending)
    /\ crm.pending[i].phase = "req"
    /\ crm' = [crm EXCEPT !.alerts = @ + 1, !.pending = RemoveAt(@, i)]
    /\ UNCHANGED << chats, selectedChatId, messages, typingUsers,
                    messagesLoading, hasMoreMessages, messagesOffset,
                    typingTimeoutRef, toasts, limit, now, timers, sinceTyping,
                    fetches, sends, edits, deletes, markReads, srv, nextId, evq,
                    calls, gw, shouldAutoScroll, lastScroll, editing, lastError,
                    svc, db, onlineUsers, lastStatus, removed, pw >>

NextCrm ==
    \/ \E k \in 1..Len(CrmUsers) : CrmHandleDelete(CrmUsers[k])
    \/ \E i \in 1..MaxCrm : CrmDeleteServer(i)
    \/ \E i \in 1..MaxCrm : CrmDeleteOk(i)
    \/ \E i \in 1..MaxCrm : CrmDeleteFail(i)

\* The state of the client when MainChat is mounted, the chat list apart.
InitRest ==
    /\ selectedChatId = NoChat
    /\ messages = << >>
    /\ typingUsers = {}
    /\ messagesLoading = FALSE
    /\ hasMoreMessages = FALSE
    /\ messagesOffset = 0
    /\ typingTimeoutRef = [u \in Users |-> 0]
    /\ toasts = {}
    /\ now = 1
    /\ timers = {}
    /\ sinceTyping = [u \in Users |-> 0]
    /\ fetches = << >>
    /\ sends = << >>
    /\ edits = << >>
    /\ deletes = << >>
    /\ markReads = << >>
    /\ evq = << >>
    /\ gw = GwInit
    /\ shouldAutoScroll = TRUE
    /\ lastScroll = NoScroll
    /\ editing = {}
    /\ lastError = NoError
    /\ svc = SvcInit
    /\ db = DbInit
    /\ onlineUsers = {}
    /\ lastStatus = [u \in Users |-> NoStatus]
    /\ removed = {}
    /\ crm = CrmInit
    /\ pw = PwInit

InitClient == chats = InitChats /\ InitRest

\* Chat A holds a full page and one message more, chat B is empty.
Init ==
    /\ InitClient
    /\ limit = SmallPage
    /\ calls = [select |-> MaxSelect, more |-> MaxMore, send |-> MaxSend,
                edit |-> MaxMutate, delete |-> MaxMutate,
                typing |-> MaxTyping]
    /\ srv = [c \in Chats |->
                IF c = "A"
                THEN [i \in 1..(SmallPage + 1) |->
                        ServerMsg(i, "A", IF i = 1 THEN Other ELSE Me, "x")]
                ELSE << >>]
    /\ nextId = FirstNewId

\* The places of the calls in flight and the ids the server gives.
FetchSlots  == 1..(MaxSelect + MaxMore)
SendSlots   == 1..MaxSend
MutateSlots == 1..MaxMutate
ServerIds   == 1..(FirstNewId + MaxNew - 1)

\* Fetching: selecting chats, paging, the answers of the server.
Fetching ==
    \/ \E c \in Chats : HandleChatSelect(c)
    \/ HandleLoadMoreMessages
    \/ \E i \in FetchSlots : FetchServer(i)
    \/ \E i \in FetchSlots : FetchOk(i)
    \/ \E i \in FetchSlots : FetchFail(i)
    \/ \E i \in FetchSlots : MarkReadOk(i)
    \/ \E i \in FetchSlots : MarkReadFail(i)

\* Sending: the user and the other participant send, message-created arrives.
Sending ==
    \/ \E f \in BOOLEAN, t \in 1..MaxClock : HandleSendMessage("x", f, t)
    \/ \E i \in SendSlots : UploadOk(i)
    \/ \E i \in SendSlots : UploadFail(i)
    \/ \E i \in SendSlots : SendServer(i)
    \/ \E i \in SendSlots : SendOk(i)
    \/ \E i \in SendSlots : SendFail(i)
    \/ \E c \in Chats : OtherSend(c, "x")
    \/ DeliverCreated

\* Mutating: the user edits and deletes, message-edited/-deleted arrive.
Mutating ==
    \/ \E id \in ServerIds, c \in Contents : HandleEditMessage(id, c)
    \/ \E i \in MutateSlots : EditOk(i)
    \/ \E i \in MutateSlots : EditFail(i)
    \/ \E id \in ServerIds : HandleDeleteMessage(id)
    \/ \E i \in MutateSlots : DeleteServer(i)
    \/ \E i \in MutateSlots : DeleteOk(i)
    \/ \E i \in MutateSlots : DeleteFail(i)
    \/ DeliverDeleted
    \/ DeliverEdited

Next == Fetching \/ Sending

Spec == Init /\ [][Next]_vars

\* Fetching alone: selections, paging and their responses.
SpecFetch == Init /\ [][Fetching]_vars

NextMutate == Fetching \/ Mutating

SpecMutate == Init /\ [][NextMutate]_vars

\* Typing: typing events, the clock and the expiry timers, chat selections.
NextTyping ==
    \/ \E c \in Chats : HandleChatSelect(c)
    \/ \E c \in Chats, u \in Users \ {Me}, b \in BOOLEAN : OnTyping(c, u, b)
    \/ TimerFireAny
    \/ Tick

SpecTyping == Init /\ [][NextTyping]_vars

\* A due timer callback is run by the event loop, and time passes.
SpecTypingFair == SpecTyping /\ WF_vars(TimerFireAny) /\ WF_vars(Tick)

\* Paging: one chat of n stored messages is opened and read to its start
\* with the page size of the code; nothing else happens.
StoredChat(n) == [i \in 1..n |-> ServerMsg(i, "A", IF i % 2 = 0 THEN Me ELSE Other, "x")]

\* The load-more calls that read the longest chat to its start: one per
\* page after the first, the last one possibly empty.
PagingCalls == (2 * LIMIT + MaxStored) \div LIMIT + 1

InitPaging ==
    /\ InitClient
    /\ limit = LIMIT
    /\ \E n \in 0..(2 * LIMIT + MaxStored) :
          /\ srv = [c \in Chats |-> IF c = "A" THEN StoredChat(n) ELSE << >>]
          /\ nextId = n + 1
    /\ calls = [select |-> 1, more |-> PagingCalls, send |-> 0, edit |-> 0,
                delete |-> 0, typing |-> 0]

NextPaging ==
    \/ HandleChatSelect("A")
    \/ HandleLoadMoreMessages
    \/ \E i \in FetchSlots : FetchServer(i)
    \/ \E i \in FetchSlots : FetchOk(i)
    \/ \E i \in FetchSlots : MarkReadOk(i)
    \/ \E i \in FetchSlots : MarkReadFail(i)

SpecPaging == InitPaging /\ [][NextPaging]_vars

\* Gateway: edit and delete requests of the participants and time.
NextGateway ==
    \/ \E id \in 1..GwAbsentId, u \in Users, c \in {"x", " x", "y", " "} :
          GatewayEdit(id, u, c)
    \/ \E id \in 1..GwAbsentId, u \in Users \cup {Admin}, b \in BOOLEAN :
          GatewayDelete(id, u, b)
    \/ GatewayTick

SpecGateway == Init /\ [][NextGateway]_vars

\* Selecting: chats are opened and marked read while the other participant
\* sends and the chat list counts the unread messages.
NextSelect ==
    \/ Fetching
    \/ \E c \in Chats : OtherSend(c, "x")
    \/ DeliverCreated

SpecSelect == Init /\ [][NextSelect]_vars

\* Chat list: a message-created event of any chat reaches a client whose
\* list holds some of the chats, in any order.
AllChatIds == {"A", "B", "C"}

ChatLists ==
    {l \in UNION {[1..n -> AllChatIds] : n \in 0..Cardinality(AllChatIds)} :
        \A i, j \in 1..Len(l) : l[i] = l[j] => i = j}

\* A chat of the list as loadChats delivers it, nothing unread.
ChatOfList(id) ==
    [id |-> id, lastMessage |-> NoLast, unreadCount |-> [u \in Users |-> 0]]

\* The socket delivers a message-created event of a chat to onNewMessage of
\* MainChat and, when a chat is open, to the one of MessageWindow.
ReceiveCreated(chatId, senderId) ==
    /\ nextId < FirstNewId + MaxNew
    /\ LET message == ServerMsg(nextId, chatId, senderId, "x")
       IN  /\ chats' = ChatsOnNewMessage(chats, message, selectedChatId)
           /\ messages' = IF selectedChatId = NoChat THEN messages
                          ELSE WindowOnNewMessage(messages, message,
                                                  selectedChatId)
    /\ nextId' = nextId + 1
    /\ editing' = Unmount(editing, messages')
    /\ UNCHANGED << selectedChatId, typingUsers, messagesLoading,
                    hasMoreMessages, messagesOffset, typingTimeoutRef, toasts,
                    limit, now, timers, sinceTyping, fetches, sends, edits,
                    deletes, markReads, srv, evq, calls, gw, shouldAutoScroll,
                    lastScroll, lastError, svc, db, onlineUsers, lastStatus,
                    removed, crm, pw >>

NextChatList ==
    \/ \E c \in AllChatIds, u \in {Me, Other} : ReceiveCreated(c, u)
    \/ \E c \in Chats : HasId(chats, c) /\ HandleChatSelect(c)

InitChatList ==
    /\ InitRest
    /\ \E l \in ChatLists : chats = [i \in 1..Len(l) |-> ChatOfList(l[i])]
    /\ limit = SmallPage
    /\ calls = [select |-> 1, more |-> 0, send |-> 0, edit |-> 0,
                delete |-> 0, typing |-> 0]
    /\ srv = [c \in Chats |-> << >>]
    /\ nextId = FirstNewId

SpecChatList == InitChatList /\ [][NextChatList]_vars

SpecCrm == Init /\ [][NextCrm]_vars

SpecPassword == Init /\ [][NextPassword]_vars

\* Deleting: the user deletes messages of the open chat while chats are
\* selected and fetched; confirmations and message-deleted events arrive in
\* any order.
DeleteCalls == 2

NextDelete ==
    \/ \E c \in Chats : HandleChatSelect(c)
    \/ \E i \in FetchSlots : FetchServer(i)
    \/ \E i \in FetchSlots : FetchOk(i)
    \/ \E id \in ServerIds : HandleDeleteMessage(id)
    \/ \E i \in 1..DeleteCalls : DeleteServer(i)
    \/ \E i \in 1..DeleteCalls : DeleteOk(i)
    \/ \E i \in 1..DeleteCalls : DeleteFail(i)
    \/ DeliverDeleted

\* As Init, with DeleteCalls deletes and no other call than selections.
InitDelete ==
    /\ InitClient
    /\ limit = SmallPage
    /\ calls = [select |-> MaxSelect, more |-> 0, send |-> 0, edit |-> 0,
                delete |-> DeleteCalls, typing |-> 0]
    /\ srv = [c \in Chats |->
                IF c = "A"
                THEN [i \in 1..(SmallPage + 1) |->
                        ServerMsg(i, "A", IF i = 1 THEN Other ELSE Me, "x")]
                ELSE << >>]
    /\ nextId = FirstNewId

SpecDelete == InitDelete /\ [][NextDelete]_vars

\* Events: message and typing events of both chats arrive while one of them
\* is open; the user edits and deletes once, the other participant sends.
NextEvents ==
    \/ \E c \in Chats : HandleChatSelect(c)
    \/ \E i \in FetchSlots : FetchServer(i)
    \/ \E i \in FetchSlots : FetchOk(i)
    \/ \E c \in Chats : OtherSend(c, "x")
    \/ \E id \in ServerIds, c \in Contents : HandleEditMessage(id, c)
    \/ \E i \in MutateSlots : EditOk(i)
    \/ \E id \in ServerIds : HandleDeleteMessage(id)
    \/ \E i \in MutateSlots : DeleteServer(i)
    \/ \E i \in MutateSlots : DeleteOk(i)
    \/ DeliverCreated
    \/ DeliverEdited
    \/ DeliverDeleted
    \/ \E c \in Chats, u \in Users \ {Me}, b \in BOOLEAN : OnTyping(c, u, b)

\* As Init, with two typing events and no paging or sending by the user.
InitEvents ==
    /\ InitClient
    /\ limit = SmallPage
    /\ calls = [select |-> MaxSelect, more |-> 0, send |-> 0,
                edit |-> MaxMutate, delete |-> MaxMutate, typing |-> 2]
    /\ srv = [c \in Chats |->
                IF c = "A"
                THEN [i \in 1..(SmallPage + 1) |->
                        ServerMsg(i, "A", IF i = 1 THEN Other ELSE Me, "x")]
                ELSE << >>]
    /\ nextId = FirstNewId

SpecEvents == InitEvents /\ [][NextEvents]_vars

\* Presence: user-status events arrive while chats are opened.
NextPresence ==
    \/ \E u \in Users, st \in Statuses : OnUserStatus(u, st)
    \/ \E c \in Chats : HandleChatSelect(c)
    \/ \E i \in FetchSlots : FetchServer(i)
    \/ \E i \in FetchSlots : FetchOk(i)

SpecPresence == Init /\ [][NextPresence]_vars

NextSend ==
    \/ \E content \in {"", "x"}, mediaFile \in BOOLEAN :
          SendBegin(content, mediaFile)
    \/ SendUploadOk
    \/ SendUploadFail
    \/ GatewaySend
    \/ SendSettle
    \/ GatewayTick

SpecSend == Init /\ [][NextSend]_vars

\* Scrolling: the open chat is scrolled while pages and messages arrive.
ScrollTops == {0, SCROLL_THRESHOLD}

Distances == {0, SCROLL_THRESHOLD - 1, SCROLL_THRESHOLD, SCROLL_THRESHOLD + 50}

NextScroll ==
    \/ \E c \in Chats : HandleChatSelect(c)
    \/ \E top \in ScrollTops, d \in Distances : HandleScroll(top, d)
    \/ \E i \in FetchSlots : FetchServer(i)
    \/ \E i \in FetchSlots : FetchOk(i)
    \/ \E c \in Chats : OtherSend(c, "x")
    \/ DeliverCreated

SpecScroll == Init /\ [][NextScroll]_vars

\* Editing: the items of the open chat are edited while time passes.
\* The clock takes the values at which the stored messages of the user
\* reach the end of their edit window.
EditClock ==
    {ts + EDIT_WINDOW - d : ts \in 2..(SmallPage + 1), d \in {0, 1}}

EditTexts == {"x", " x", "y"}

NextEdit ==
    \/ \E c \in Chats : HandleChatSelect(c)
    \/ \E i \in FetchSlots : FetchServer(i)
    \/ \E i \in FetchSlots : FetchOk(i)
    \/ \E t \in EditClock : ClockAdvance(t)
    \/ \E id \in ServerIds : HandleEditStart(id)
    \/ \E id \in ServerIds, c \in EditTexts : HandleEditChange(id, c)
    \/ \E id \in ServerIds : HandleEditCancel(id)
    \/ \E id \in ServerIds : HandleEditSave(id)
    \/ \E i \in MutateSlots : EditOk(i)
    \/ \E i \in MutateSlots : EditFail(i)
    \/ DeliverEdited

\* As Init, with one selection and no other call than edits.
InitEdit ==
    /\ InitClient
    /\ limit = SmallPage
    /\ calls = [select |-> 1, more |-> 0, send |-> 0, edit |-> MaxMutate,
                delete |-> 0, typing |-> 0]
    /\ srv = [c \in Chats |->
                IF c = "A"
                THEN [i \in 1..(SmallPage + 1) |->
                        ServerMsg(i, "A", IF i = 1 THEN Other ELSE Me, "x")]
                ELSE << >>]
    /\ nextId = FirstNewId

SpecEdit == InitEdit /\ [][NextEdit]_vars

\* The api service: calls of its operations and the outcomes of request().
NextService ==
    \/ \E op \in Operations : ServiceCall(op)
    \/ \E resp \in TokenPairs : ServiceFulfil(resp)
    \/ \E t \in ServiceTests : ServiceReject(t.err)
    \/ \E err \in Rejections : ServiceReject(err)

SpecService == Init /\ [][NextService]_vars

\* The chat routes: requests of any user for any id, and counters growing.
NextRoutes ==
    \/ \E c \in ChatIds, u \in Users : GetChat(c, u)
    \/ \E c \in ChatIds, u \in Users : PostReadFind(c, u)
    \/ \E i \in 1..MaxRoute : PostReadUpdate(i)
    \/ \E c \in Chats, u \in Users : DbIncrement(c, u)

SpecRoutes == Init /\ [][NextRoutes]_vars

\* ------------------------------------------------------------------ claims
\* C1: no two records of the message list share an id, whatever the
\* interleaving of sends, message-created events and fetch responses.
C1_UniqueIds ==
    \A i, j \in 1..Len(messages) : i # j => messages[i].id # messages[j].id

\* The messages a message-created event can carry: those in flight on the
\* socket and, for a repeated delivery, every stored message.
CreatedMessages ==
    {evq[i].msg : i \in {j \in 1..Len(evq) : evq[j].type = "created"}}
        \cup UNION {{srv[c][i] : i \in 1..Len(srv[c])} : c \in Chats}

\* C2: a message-created event whose id is in the list leaves the list as it
\* is, and delivering an event twice gives the list of delivering it once.
C2_CreatedIdempotent ==
    selectedChatId # NoChat =>
        \A e \in CreatedMessages :
            LET once == WindowOnNewMessage(messages, e, selectedChatId)
            IN  /\ HasId(messages, e.id) => once = messages
                /\ WindowOnNewMessage(once, e, selectedChatId) = once

C2_Witness ==
    /\ evq # << >> /\ Head(evq).type = "created"
    /\ Head(evq).chatId = selectedChatId
    /\ HasId(messages, Head(evq).messageId)

\* C3: when the edit call fails, the content of the edited record is again
\* what it was before handleEditMessage changed it.
C3_EditRolledBack ==
    [][\A i \in 1..Len(edits) :
          EditFail(i) =>
              \A k \in 1..Len(messages') :
                  messages'[k].id = edits[i].id
                      => messages'[k].content = edits[i].before]_vars

\* C4: the response of a fetch issued for a chat that is no longer the
\* selected one changes neither the list nor the offset nor has-more.
C4_StaleResponseIgnored ==
    [][\A i \in 1..Len(fetches) :
          (FetchOk(i) /\ fetches[i].chatId # selectedChatId)
              => UNCHANGED << messages, messagesOffset, hasMoreMessages >>]_vars

\* C5: handleLoadMoreMessages issues no request while a fetch for the
\* selected chat is still in flight.
C5_NoFetchInFlight ==
    [][HandleLoadMoreMessages =>
          \A i \in 1..Len(fetches) : fetches[i].chatId # selectedChatId]_vars

\* C6: handleSendMessage appends one record with status "sending"; a failed
\* upload or send removes that record, shows an error and leaves the other
\* records alone; a successful send puts the server record, "sent" and
\* delivered, in its place; no "sending" record outlives its call.
C6_Appends ==
    \A f \in BOOLEAN, t \in 1..MaxClock :
        HandleSendMessage("x", f, t) =>
            /\ Len(messages') = Len(messages) + 1
            /\ SubSeq(messages', 1, Len(messages)) = messages
            /\ messages'[Len(messages')].id = TempId(t)
            /\ messages'[Len(messages')].status = "sending"

C6_FailRemoves ==
    \A i \in 1..Len(sends) :
        (SendFail(i) \/ UploadFail(i)) =>
            /\ toasts' \in {{"sendFailed"}, {"uploadFailed"}}
            /\ IF HasId(messages, sends[i].tempId)
               THEN \E k \in 1..Len(messages) :
                       /\ messages[k].id = sends[i].tempId
                       /\ messages' = RemoveAt(messages, k)
               ELSE messages' = messages

C6_OkReplaces ==
    \A i \in 1..Len(sends) :
        SendOk(i) =>
            IF HasId(messages, sends[i].tempId)
            THEN \E k \in 1..Len(messages) :
                    /\ messages[k].id = sends[i].tempId
                    /\ messages' = [messages EXCEPT ![k] =
                           [sends[i].data EXCEPT !.status = "sent",
                                                 !.delivered = TRUE]]
            ELSE messages' = messages

C6_NoSendingLeft ==
    \A k \in 1..Len(messages) :
        messages[k].status = "sending"
            => \E i \in 1..Len(sends) : sends[i].tempId = messages[k].id

C6_SendLifecycle ==
    /\ [][C6_Appends /\ C6_FailRemoves /\ C6_OkReplaces]_vars
    /\ []C6_NoSendingLeft

\* C7: handleDeleteMessage flags the record and keeps it; the record goes
\* only when the server has confirmed; a failed call leaves the record in the
\* list, its flag cleared and everything else as it was.
C7_Flags ==
    \A id \in ServerIds :
        HandleDeleteMessage(id) =>
            /\ Len(messages') = Len(messages)
            /\ \A j \in 1..Len(messages) :
                  messages'[j] = IF messages[j].id = id
                                 THEN [messages[j] EXCEPT !.isDeleting = TRUE]
                                 ELSE messages[j]

C7_FailRestores ==
    \A i \in 1..Len(deletes) :
        DeleteFail(i) =>
            /\ "deleteFailed" \in toasts'
            /\ Len(messages') = Len(messages)
            /\ \A j \in 1..Len(messages) :
                  messages'[j] = IF messages[j].id = deletes[i].id
                                 THEN [messages[j] EXCEPT !.isDeleting = FALSE]
                                 ELSE messages[j]

C7_ConfirmedRemoves ==
    \A i \in 1..Len(deletes) :
        DeleteOk(i) =>
            /\ ~HasId(srv[deletes[i].chatId], deletes[i].id)
            /\ ~HasId(messages', deletes[i].id)
            /\ messages' = SelectSeq(messages, LAMBDA m : m.id # deletes[i].id)

C7_OptimisticDelete ==
    [][C7_Flags /\ C7_FailRestores /\ C7_ConfirmedRemoves]_vars

C7_Witness ==
    /\ toasts = {"deleteFailed"}
    /\ \E k \in 1..Len(messages) :
          messages[k].senderId = Me /\ ~messages[k].isDeleting

\* C8: with n stored messages and nothing else going on, the loaded list is
\* always the newest messagesOffset stored messages, oldest first; has-more
\* is set exactly by a full page; once has-more is false the list is all n
\* messages and the offset is n.  For n = 60: 50 with has-more, then 60 without.
C8_LoadedSuffix ==
    (selectedChatId # NoChat /\ fetches = << >>) =>
        LET stored == srv[selectedChatId]
            n      == Len(stored)
        IN  /\ messagesOffset <= n
            /\ messages = SubSeq(stored, n - messagesOffset + 1, n)
            /\ ~hasMoreMessages => messagesOffset = n /\ messages = stored

C8_Sixty ==
    (selectedChatId = "A" /\ fetches = << >> /\ Len(srv["A"]) = 60) =>
        \/ messagesOffset = 50 /\ Len(messages) = 50 /\ hasMoreMessages
        \/ messagesOffset = 60 /\ Len(messages) = 60 /\ ~hasMoreMessages

C8_HasMoreIffFullPage ==
    \A i \in 1..Len(fetches) :
        FetchOk(i) => (hasMoreMessages' <=> Len(fetches[i].page) = LIMIT)

C8_PaginationComplete ==
    /\ [](C8_LoadedSuffix /\ C8_Sixty)
    /\ [][C8_HasMoreIffFullPage]_vars

C8_Witness ==
    /\ selectedChatId = "A" /\ fetches = << >>
    /\ Len(srv["A"]) = 60 /\ Len(messages) = 60
    /\ messagesOffset = 60 /\ ~hasMoreMessages

\* The unread counter the chat list holds for a chat and a participant.
UnreadOf(cs, chatId, u) == cs[FindIndex(cs, chatId)].unreadCount[u]

\* C9: a message-created event adds exactly 1 to the current user's counter
\* of the message's chat iff the sender is another user and the chat is not
\* the selected one; no other counter changes; no counter is negative.
C9_EventStep ==
    DeliverCreated =>
        \A c \in Chats, u \in Users :
            UnreadOf(chats', c, u) =
                UnreadOf(chats, c, u) +
                    (IF /\ u = Me
                        /\ c = Head(evq).msg.chatId
                        /\ Head(evq).msg.senderId # Me
                        /\ Head(evq).msg.chatId # selectedChatId
                     THEN 1 ELSE 0)

C9_NonNegative ==
    \A c \in Chats, u \in Users : UnreadOf(chats, c, u) >= 0

C9_UnreadCounters == [][C9_EventStep]_vars /\ []C9_NonNegative

C9_Witness ==
    /\ UnreadOf(chats, "A", Me) = 1
    /\ selectedChatId = "B"
    /\ chats[1].lastMessage.senderId = Other

\* C10: a user shown as typing is eventually not shown any more, and the
\* expiry timer removes a user only when TYPING_TIMEOUT seconds have passed
\* since the last typing-started event received for that user.
C10_Expires ==
    \A u \in Users : (u \in typingUsers) ~> (u \notin typingUsers)

C10_WindowRestarts ==
    \A t \in timers :
        (TimerFire(t) /\ t.userId \in typingUsers)
            => sinceTyping[t.userId] >= TYPING_TIMEOUT

C10_TypingExpiry == C10_Expires /\ [][C10_WindowRestarts]_vars

C10_Witness ==
    /\ calls["typing"] <= MaxTyping - 2
    /\ \E t \in timers :
          /\ t.left = 0 /\ t.userId \in typingUsers
          /\ sinceTyping[t.userId] = TYPING_TIMEOUT

\* The pending expiry timers of a user.
TimersOf(ts, u) == {t \in ts : t.userId = u}

\* C11: a user never has more than one pending expiry timer, and every
\* pending timer is the one typingTimeoutRef remembers; typing-started leaves
\* the user with exactly one, freshly armed timer; typing-stopped removes the
\* user from the typing set, cancels the timer and forgets it; a fired timer
\* removes its own entry; the cleanup of the socket effect leaves no timer.
C11_OnePerUser ==
    /\ \A u \in Users : Cardinality(TimersOf(timers, u)) <= 1
    /\ \A t \in timers : typingTimeoutRef[t.userId] = t.id

C11_Started ==
    \A u \in Users \ {Me} :
        (OnTyping(selectedChatId, u, TRUE) /\ selectedChatId # NoChat) =>
            /\ Cardinality(TimersOf(timers', u)) = 1
            /\ \A t \in TimersOf(timers', u) :
                  t.left = TYPING_TIMEOUT /\ typingTimeoutRef'[u] = t.id
            /\ \A v \in Users \ {u} : TimersOf(timers', v) = TimersOf(timers, v)

C11_Stopped ==
    \A u \in Users \ {Me} :
        (OnTyping(selectedChatId, u, FALSE) /\ selectedChatId # NoChat) =>
            /\ u \notin typingUsers'
            /\ TimersOf(timers', u) = {}
            /\ typingTimeoutRef'[u] = 0
            /\ \A v \in Users \ {u} : TimersOf(timers', v) = TimersOf(timers, v)

C11_Fired ==
    \A t \in timers :
        TimerFire(t) => t \notin timers' /\ typingTimeoutRef'[t.userId] = 0

C11_Cleanup ==
    \A c \in Chats :
        (HandleChatSelect(c) /\ c # selectedChatId) =>
            timers' = {} /\ typingTimeoutRef' = [u \in Users |-> 0]

C11_NoTimerLeak ==
    /\ []C11_OnePerUser
    /\ [][C11_Started /\ C11_Stopped /\ C11_Fired /\ C11_Cleanup]_vars

\* Two users have typed in the open chat, one of them after the other had
\* begun; the later one is no longer shown and has no timer, the earlier
\* one's timer is still pending.
C11_Witness ==
    /\ selectedChatId # NoChat
    /\ \E u, v \in Users \ {Me} :
          /\ u # v
          /\ sinceTyping[u] < sinceTyping[v]
          /\ u \notin typingUsers /\ typingTimeoutRef[u] = 0
          /\ TimersOf(timers, v) # {} /\ v \in typingUsers

\* What a read of a stored message returns.
GatewayRead(store, id) == store[id].content

\* C12: an edit of a message created more than EDIT_WINDOW minutes ago
\* never succeeds, writes nothing and publishes nothing, so a later read
\* returns the original content; it is rejected with EditTimeout whenever no
\* other rule rejects it (the message exists, the editor is its sender, the
\* new content is not empty).
C12_EditStep ==
    \A id \in DOMAIN gw.store, u \in Users, c \in {"x", " x", "y", " "} :
        (GatewayEdit(id, u, c)
            /\ gw.now - gw.store[id].createdAt > EDIT_WINDOW) =>
            /\ gw'.reply.code # "ok"
            /\ gw'.store = gw.store
            /\ GatewayRead(gw'.store, id) = GatewayRead(gw.store, id)
            /\ gw'.events = gw.events
            /\ (~gw.store[id].deleted /\ u = gw.store[id].sender /\ Trim(c) # "")
                  => gw'.reply.code = "EditTimeout"

C12_EditTimeout == [][C12_EditStep]_vars

C12_Witness ==
    /\ gw.reply.op = "edit" /\ gw.reply.code = "EditTimeout"
    /\ gw.reply.id \in DOMAIN gw.store
    /\ gw.now - gw.store[gw.reply.id].createdAt > EDIT_WINDOW
    /\ gw.store[gw.reply.id].content = "x"
    /\ gw.store[gw.reply.id].editedAt < 0

\* C13: a delete that succeeds marks the message deleted; a delete of a
\* message already deleted (for everyone, or for the requester) never
\* succeeds and leaves the store and the published events as they were; it
\* is rejected with AlreadyDeleted whenever no other rule rejects it.
C13_DeleteStep ==
    \A id \in DOMAIN gw.store, u \in Users \cup {Admin}, b \in BOOLEAN :
        GatewayDelete(id, u, b) =>
            /\ gw'.reply.code = "ok" =>
                  (gw'.store[id].deleted \/ u \in gw'.store[id].deletedFor)
            /\ (gw.store[id].deleted \/ u \in gw.store[id].deletedFor) =>
                  /\ gw'.reply.code # "ok"
                  /\ gw'.store = gw.store
                  /\ gw'.events = gw.events
                  /\ ((u = Admin \/ gw.now - gw.store[id].createdAt < EDIT_WINDOW)
                        /\ (~b \/ u \in {Admin, gw.store[id].sender}))
                        => gw'.reply.code = "AlreadyDeleted"

C13_DeleteTwice == [][C13_DeleteStep]_vars

C13_Witness ==
    /\ gw.reply.op = "delete" /\ gw.reply.code = "AlreadyDeleted"
    /\ gw.reply.id \in DOMAIN gw.store
    /\ gw.store[gw.reply.id].deleted
    /\ Len(gw.events) = 1

\* C14: for the open chat, message-edited changes the content and the edit
\* mark of the records with the event's id and nothing else, message-deleted
\* removes the records with the event's id and nothing else, and an event
\* whose id the list does not hold leaves the list as it is.
C14_Edited ==
    (DeliverEdited /\ selectedChatId = Head(evq).chatId) =>
        /\ Len(messages') = Len(messages)
        /\ \A k \in 1..Len(messages) :
              messages'[k] =
                  IF messages[k].id = Head(evq).messageId
                  THEN [messages[k] EXCEPT !.content = Head(evq).content,
                                           !.edited = TRUE]
                  ELSE messages[k]
        /\ ~HasId(messages, Head(evq).messageId) => messages' = messages

C14_Deleted ==
    (DeliverDeleted /\ selectedChatId = Head(evq).chatId) =>
        /\ ~HasId(messages', Head(evq).messageId)
        /\ messages' = SelectSeq(messages,
                                 LAMBDA m : m.id # Head(evq).messageId)
        /\ ~HasId(messages, Head(evq).messageId) => messages' = messages

C14_EventReconciliation == [][C14_Edited /\ C14_Deleted]_vars

\* The next event is an edit of a record the open chat shows with another
\* content, among other records.
C14_Witness ==
    /\ evq # << >> /\ Head(evq).type = "edited"
    /\ Head(evq).chatId = selectedChatId
    /\ Len(messages) >= 2
    /\ \E k \in 1..Len(messages) :
          /\ messages[k].id = Head(evq).messageId
          /\ messages[k].content # Head(evq).content

\* C15: when the initial fetch of the open chat fails, an error is shown,
\* the loading flag is false, and the list is empty and the offset 0, as the
\* selection left them.
C15_FailLeavesReset ==
    [][\A i \in 1..Len(fetches) :
          (FetchFail(i) /\ fetches[i].mark
              /\ fetches[i].chatId = selectedChatId) =>
              /\ "loadMessagesFailed" \in toasts'
              /\ ~messagesLoading'
              /\ messages' = << >>
              /\ messagesOffset' = 0]_vars

\* C15 as amended: a selection empties the list and sets the offset to 0; a
\* failed fetch shows an error, clears the loading flag and changes neither
\* the list nor the offset nor has-more; every completed fetch clears the
\* loading flag, and the flag is false whenever no fetch is in flight.
C15_Selects ==
    \A c \in Chats :
        HandleChatSelect(c) =>
            messages' = << >> /\ messagesOffset' = 0 /\ messagesLoading'

C15_Fails ==
    \A i \in 1..Len(fetches) :
        FetchFail(i) =>
            /\ "loadMessagesFailed" \in toasts'
            /\ ~messagesLoading'
            /\ UNCHANGED << messages, messagesOffset, hasMoreMessages >>

C15_Completes ==
    \A i \in 1..Len(fetches) : FetchOk(i) => ~messagesLoading'

C15_Idle == fetches = << >> => ~messagesLoading

C15_FailKeepsState ==
    /\ [][C15_Selects /\ C15_Fails /\ C15_Completes]_vars
    /\ []C15_Idle

\* The only fetch of the open chat has failed.
C15_Witness ==
    /\ selectedChatId # NoChat /\ calls["select"] = MaxSelect - 1
    /\ toasts = {"loadMessagesFailed"}
    /\ fetches = << >> /\ ~messagesLoading
    /\ messages = << >> /\ messagesOffset = 0

\* C16: the view is scrolled to the latest message after a change of the
\* list only if handleScroll has not run yet or the distance from the bottom
\* it saw last was below SCROLL_THRESHOLD; after a scroll to
\* SCROLL_THRESHOLD pixels or more from the bottom an arriving message does
\* not scroll the view.
C16_OnlyNearBottom ==
    (AutoScrolls /\ messages' # messages) =>
        (lastScroll = NoScroll \/ lastScroll < SCROLL_THRESHOLD)

C16_ScrolledUpStays ==
    (DeliverCreated /\ lastScroll >= SCROLL_THRESHOLD) => ~AutoScrolls

C16_AutoScroll == [][C16_OnlyNearBottom /\ C16_ScrolledUpStays]_vars

\* The user has scrolled to exactly the threshold, and a message for the
\* open chat has arrived since and is shown.
C16_Witness ==
    /\ lastScroll = SCROLL_THRESHOLD /\ ~shouldAutoScroll
    /\ selectedChatId # NoChat /\ evq = << >>
    /\ nextId > FirstNewId
    /\ HasId(messages, FirstNewId)

\* C17: the edit action is offered only for a message of the current user
\* whose age, now - timestamp, is below EDIT_WINDOW minutes: not at exactly
\* EDIT_WINDOW minutes or more, and not for another user's message.  An
\* edit request is sent only for a message whose item entered edit mode
\* through that gate.
C17_Offered ==
    \A k \in 1..Len(messages) :
        EditOffered(messages[k]) =>
            /\ messages[k].senderId = Me
            /\ now - messages[k].timestamp < EDIT_WINDOW

C17_Started ==
    \A e \in editing :
        /\ e.startAge < EDIT_WINDOW
        /\ HasId(messages, e.id) => Shown(e.id).senderId = Me

C17_Requested ==
    \A i \in 1..Len(edits) :
        HasId(messages, edits[i].id) => Shown(edits[i].id).senderId = Me

C17_Sends ==
    Len(edits') > Len(edits) =>
        \E e \in editing :
            /\ e.id = edits'[Len(edits')].id
            /\ e.startAge < EDIT_WINDOW
            /\ Shown(e.id).senderId = Me

C17_EditGate ==
    [](C17_Offered /\ C17_Started /\ C17_Requested) /\ [][C17_Sends]_vars

\* An edit that was started within the window is sent after the window has
\* closed, while the other message of the user is too old to be offered.
C17_Witness ==
    /\ \E i \in 1..Len(edits) :
          /\ IsEditing(edits[i].id)
          /\ now - Shown(edits[i].id).timestamp >= EDIT_WINDOW
    /\ \E k \in 1..Len(messages) :
          /\ messages[k].senderId = Me
          /\ ~IsEditing(messages[k].id)
          /\ now - messages[k].timestamp = EDIT_WINDOW
          /\ ~EditOffered(messages[k])


\* C18: saving an edit whose trimmed content equals the trimmed content of
\* the message leaves edit mode without an error and writes nothing: no
\* edit request is issued, the message list and the stored messages are
\* unchanged, and no message-edited event is published.
C18_NoOpSave(messageId) ==
    /\ HasId(messages, messageId)
    /\ IsEditing(messageId)
    /\ Trim(ItemOf(messageId).editContent) = Trim(Shown(messageId).content)
    /\ HandleEditSave(messageId)

C18_NoOpEdit ==
    [][\A id \in ServerIds :
          C18_NoOpSave(id) =>
              /\ ~(\E e \in editing' : e.id = id)
              /\ toasts' = toasts
              /\ edits' = edits
              /\ messages' = messages
              /\ srv' = srv
              /\ evq' = evq]_vars

\* An item in edit mode holds the content of its message with a leading
\* blank, so that saving it is a no-op edit of differing text.
C18_Witness ==
    \E e \in editing :
        /\ HasId(messages, e.id)
        /\ ~e.editLoading
        /\ e.editContent # Shown(e.id).content
        /\ Trim(e.editContent) = Trim(Shown(e.id).content)
        /\ edits = << >>


\* C19: an edit or delete that the server rejects with EditTimeout or
\* DeleteTimeout shows the user a message that differs from the one shown
\* for a generic failure such as a network error.
C19_EditTimeoutShown ==
    \A i \in MutateSlots :
        (EditFail(i) /\ lastError' = "EditTimeout") =>
            toasts' # {EditErrorToast("NetworkError"), "editSuccess"}

C19_DeleteTimeoutShown ==
    \A i \in MutateSlots :
        (DeleteFail(i) /\ lastError' = "DeleteTimeout") =>
            toasts' # {DeleteErrorToast("NetworkError")}

C19_TimeoutMessage ==
    [][C19_EditTimeoutShown /\ C19_DeleteTimeoutShown]_vars


\* C20: when request() rejects with a typed ApiError the operation of the
\* api service rejects with the message of that error unchanged, when it
\* rejects with any other error the operation rejects with "Unexpected
\* error"; this holds for every operation, and no operation calls request()
\* again by itself.
C20_Mapped ==
    svc.phase = "rejected" =>
        /\ svc.err.typed => svc.thrown = svc.err.message
        /\ ~svc.err.typed => svc.thrown = "Unexpected error"

C20_AsTested ==
    \A t \in ServiceTests :
        (svc.phase = "rejected" /\ svc.op = t.op /\ svc.err = t.err) =>
            svc.thrown = t.thrown

C20_NoRetry ==
    /\ svc.phase # "idle" => svc.requests = 1
    /\ [][svc.phase = "rejected" =>
             (svc'.phase = "rejected" => svc' = svc)]_vars

C21_Completes ==
    /\ svc.op = "auth.logout" /\ svc.phase = "pending"
    /\ svc'.phase \in {"fulfilled", "rejected"}

C21_LogoutClears ==
    [][C21_Completes =>
          /\ svc'.tokens = NoTokens
          /\ svc'.phase = "rejected" =>
                svc'.thrown = IF svc'.err.typed THEN svc'.err.message
                              ELSE "Unexpected error"]_vars

\* A logout called with stored tokens was rejected with an error that is
\* not an ApiError.
C21_Witness ==
    /\ svc.op = "auth.logout" /\ svc.phase = "rejected"
    /\ ~svc.err.typed
    /\ svc.held \in TokenPairs
    /\ svc.thrown = "Unexpected error"

\* C22: api.auth.login and api.auth.verifyEmail store the access and the
\* refresh token of the response when request() fulfils, and leave the
\* token storage as it was when request() rejects.
C22_Completes ==
    /\ svc.op \in {"auth.login", "auth.verifyEmail"}
    /\ svc.phase = "pending"

C22_TokensOnSuccess ==
    [][C22_Completes =>
          /\ svc'.phase = "fulfilled" =>
                /\ svc'.tokens \in TokenPairs
                /\ \A resp \in TokenPairs :
                      ServiceFulfil(resp) => svc'.tokens = resp
          /\ svc'.phase = "rejected" => svc'.tokens = svc.tokens]_vars

\* A login that replaced the stored tokens by those of its response.
C22_Witness ==
    /\ svc.op = "auth.login" /\ svc.phase = "fulfilled"
    /\ svc.held \in TokenPairs
    /\ svc.tokens \in TokenPairs
    /\ svc.tokens # svc.held


\* C23: POST /api/chats/:chatId/read of a participant sets the unread
\* counter of that participant in that chat to 0 and changes no other
\* counter of any chat; marking a chat that is already read changes
\* nothing; with a malformed id (BadRequest), an id of no chat (NotFound) or
\* a requester who is no participant (Forbidden) no counter changes.
StoredCount(store, chatId, user) ==
    IF user \in DOMAIN store[chatId].unreadCount
    THEN store[chatId].unreadCount[user] ELSE 0 - 1

C23_Rejects ==
    \A c \in ChatIds, u \in Users :
        PostReadFind(c, u) =>
            /\ db'.chats = db.chats
            /\ ~IsValidId(c) => db'.reply.code = "BadRequest"
            /\ c = MissingId => db'.reply.code = "NotFound"
            /\ (c \in Chats /\ u \notin db.chats[c].participants) =>
                   db'.reply.code = "Forbidden"
            /\ (c \in Chats /\ u \in db.chats[c].participants) =>
                   Len(db'.reads) = Len(db.reads) + 1

C23_Resets ==
    \A i \in 1..Len(db.reads) :
        PostReadUpdate(i) =>
            LET r == db.reads[i]
            IN  /\ StoredCount(db'.chats, r.chatId, r.user) = 0
                /\ \A c \in Chats, u \in Users :
                      (c # r.chatId \/ u # r.user) =>
                          StoredCount(db'.chats, c, u)
                              = StoredCount(db.chats, c, u)
                /\ \A c \in Chats : db'.chats[c].participants
                                       = db.chats[c].participants
                /\ StoredCount(db.chats, r.chatId, r.user) = 0 =>
                       db'.chats = db.chats

C23_MarkAsRead == [][C23_Rejects /\ C23_Resets]_vars

\* Chat A was marked read by its first participant after the counter of
\* the other participant had grown.
C23_Witness ==
    /\ db.reply.op = "read" /\ db.reply.code = "ok"
    /\ db.reply.chatId = "A" /\ db.reply.user = Me
    /\ db.chats["A"].unreadCount[Me] = 0
    /\ db.chats["A"].unreadCount[Other] > 0

\* C26: GET /api/chats/:chatId answers with the chat only when the
\* requester is a participant of it, with Forbidden when not, with NotFound
\* for an id of no chat and BadRequest for a malformed id; the unreadCount
\* of the answer has exactly one entry per participant, 0 for a participant
\* without a stored counter.
C26_Answer ==
    \A c \in ChatIds, u \in Users :
        GetChat(c, u) =>
            /\ db'.chats = db.chats
            /\ db'.reply.code = "ok" <=>
                   (c \in Chats /\ u \in db.chats[c].participants)
            /\ ~IsValidId(c) => db'.reply.code = "BadRequest"
            /\ c = MissingId => db'.reply.code = "NotFound"
            /\ (c \in Chats /\ u \notin db.chats[c].participants) =>
                   db'.reply.code = "Forbidden"
            /\ db'.reply.code = "ok" =>
                   /\ DOMAIN db'.reply.unreadCount = db.chats[c].participants
                   /\ \A p \in db.chats[c].participants :
                         db'.reply.unreadCount[p] =
                             IF StoredCount(db.chats, c, p) < 0 THEN 0
                             ELSE StoredCount(db.chats, c, p)

C26_ChatAccess == [][C26_Answer]_vars

\* Chat B was returned to a participant while no counter is stored for a
\* participant of it.
C26_Witness ==
    /\ db.reply.op = "get" /\ db.reply.code = "ok"
    /\ db.reply.chatId = "B"
    /\ \E p \in db.chats["B"].participants :
          /\ p \notin DOMAIN db.chats["B"].unreadCount
          /\ db.reply.unreadCount[p] = 0


\* ---- C24 ----
\* The message records that exist: the stored ones and, while a send is under
\* way, the temporary record of the client.
MessageRecords ==
    {gw.store[i] : i \in DOMAIN gw.store}
        \cup (IF gw.phase = "idle" THEN {} ELSE {gw.tempMessage})

C24_Stored ==
    /\ [](\A i \in DOMAIN gw.store : HasContentOrMedia(gw.store[i]))
    /\ [][(GatewaySend /\ IsAbsent(gw.request.content)
                       /\ IsAbsent(gw.request.media)) =>
            /\ gw'.reply.code = "ValidationError"
            /\ gw'.store = gw.store
            /\ gw'.events = gw.events]_vars

\* A media-only message was stored and a send with neither was rejected.
C24_Witness ==
    /\ gw.reply.op = "send" /\ gw.reply.code = "ValidationError"
    /\ \E i \in DOMAIN gw.store :
          IsAbsent(gw.store[i].content) /\ gw.store[i].media = MediaUrl


\* ---- C25 ----
\* C25: presence tracking. After any sequence of user-status events a user id
\* is in the online set iff the last event for that user reported "online",
\* and an event handled by both subscribers, MainChat and MessageWindow,
\* leaves the set that handling it once leaves.
C25_Presence ==
    /\ [](\A u \in Users : u \in onlineUsers <=> lastStatus[u] = "online")
    /\ [][\A u \in Users, st \in Statuses :
            OnUserStatus(u, st) =>
                onlineUsers' = ApplyUserStatus(onlineUsers, u, st)]_vars

\* With MessageWindow subscribed too, one user went online and is in the
\* set, another went offline and is not.
C25_Witness ==
    /\ MessageWindowSubscribed
    /\ lastStatus[Other] = "online" /\ Other \in onlineUsers
    /\ lastStatus["u3"] = "offline" /\ "u3" \notin onlineUsers


\* ---- C27 ----
\* C27: events of another chat have no effect on the open chat. A
\* message-created, message-edited or message-deleted event whose chatId is
\* not the selected chat leaves the message list unchanged, and a typing
\* event whose chatId is not the selected chat leaves the typing set and the
\* typing timers unchanged.
C27_OtherChat ==
    /\ [][((DeliverCreated \/ DeliverEdited \/ DeliverDeleted)
             /\ Head(evq).chatId # selectedChatId) =>
                messages' = messages]_vars
    /\ [][\A c \in Chats, u \in Users \ {Me}, b \in BOOLEAN :
            (OnTyping(c, u, b) /\ c # selectedChatId) =>
                UNCHANGED << typingUsers, timers, typingTimeoutRef >>]_vars

\* Chat A is open with its messages and somebody typing in it; a message of
\* chat B was delivered and is not in the list, and both typing events have
\* been handled.
C27_Witness ==
    /\ selectedChatId = "A" /\ messages # << >>
    /\ evq = << >>
    /\ \E k \in 1..Len(srv["B"]) : ~HasId(messages, srv["B"][k].id)
    /\ \A k \in 1..Len(messages) : messages[k].chatId = "A"
    /\ typingUsers # {} /\ timers # {}
    /\ calls["typing"] = 0


\* ---- C28 ----
\* handleChatSelect up to its await: the chat is selected, the list is
\* emptied, the offset and the typing set are reset and the messages are
\* requested; no mark-as-read call is made yet and no counter changes.
C28_Selects ==
    \A c \in Chats :
        HandleChatSelect(c) =>
            /\ selectedChatId' = c
            /\ messages' = << >> /\ messagesOffset' = 0 /\ typingUsers' = {}
            /\ fetches' = Append(fetches, [chatId |-> c, offset |-> 0,
                                           mark |-> TRUE, phase |-> "req",
                                           page |-> << >>])
            /\ UNCHANGED << markReads, chats >>

\* api.chats.markAsRead is called when the load of a selection has returned,
\* and at no other time.
C28_MarksAfterLoad ==
    markReads' # markReads =>
        \/ \E i \in 1..Len(fetches) :
              /\ FetchOk(i) \/ FetchFail(i)
              /\ fetches[i].mark
              /\ markReads' = Append(markReads, fetches[i].chatId)
              /\ chats' = chats
        \/ \E i \in 1..Len(markReads) : MarkReadOk(i) \/ MarkReadFail(i)

\* The counter of the user becomes 0 only in the continuation of a fulfilled
\* markAsRead, which changes no other counter.
C28_Succeeds ==
    /\ \A c \in Chats :
          (UnreadOf(chats, c, Me) # 0 /\ UnreadOf(chats', c, Me) = 0) =>
              \E i \in 1..Len(markReads) : MarkReadOk(i) /\ markReads[i] = c
    /\ \A i \in 1..Len(markReads) :
          MarkReadOk(i) =>
              /\ UnreadOf(chats', markReads[i], Me) = 0
              /\ \A c \in Chats, u \in Users :
                    (c # markReads[i] \/ u # Me) =>
                        UnreadOf(chats', c, u) = UnreadOf(chats, c, u)

\* A rejected markAsRead changes no counter and shows an error.
C28_Fails ==
    \A i \in 1..Len(markReads) :
        MarkReadFail(i) =>
            /\ chats' = chats
            /\ "markAsReadFailed" \in toasts'

\* C28: handleChatSelect resets the message list to empty, the offset to 0
\* and the typing set to empty, then loads the messages, then calls
\* mark-as-read. The local unread counter of the selected chat for the
\* current user is set to 0 only after mark-as-read succeeded; if it fails
\* the counter is unchanged and an error is shown. A selection changes no
\* counter of another chat or of another participant.
C28_SelectAndMarkRead ==
    [][C28_Selects /\ C28_MarksAfterLoad /\ C28_Succeeds /\ C28_Fails]_vars

\* Chat B was opened twice: one markAsRead was rejected, one fulfilled; the
\* counter of the user is 0 and the one of the other participant is kept.
C28_Witness ==
    /\ selectedChatId = "B" /\ calls["select"] = 0
    /\ fetches = << >> /\ markReads = << >>
    /\ "markAsReadFailed" \in toasts
    /\ UnreadOf(chats, "B", Me) = 0
    /\ UnreadOf(chats, "B", Other) = 2
    /\ UnreadOf(InitChats, "B", Me) > 0


\* ---- C29 ----
\* The first selection's fetch is the only request under way: what the list
\* holds since the selection emptied it came with message-created events.
InitialFetchInFlight(i) ==
    /\ Len(fetches) = 1 /\ i = 1
    /\ calls["select"] = MaxSelect - 1
    /\ fetches[i].mark /\ fetches[i].offset = 0
    /\ fetches[i].chatId = selectedChatId

\* C29: a message-created event for the selected chat that is received while
\* the initial fetch of that chat is in flight is not lost: once the response
\* of the fetch has been applied, the message of the event is still in the
\* list.
C29_EventNotLost ==
    [][\A i \in 1..Len(fetches) :
          (FetchOk(i) /\ InitialFetchInFlight(i)) =>
              \A k \in 1..Len(messages) : HasId(messages', messages[k].id)]_vars


\* ---- C30 ----
\* C30: a message removed from the list by a message-deleted event or by a
\* confirmed delete never reappears in the list while the chat stays
\* selected, neither with a fetch response that was requested before the
\* deletion and is applied after it, nor with a later message-edited event
\* for its id.
C30_NoReappear == \A id \in removed : ~HasId(messages, id)


\* ---- C31 ----
\* Every user of the typing set has an entry in typingTimeoutRef, and the
\* timer of that entry is pending.
C31_HasTimer ==
    \A u \in typingUsers :
        /\ typingTimeoutRef[u] # 0
        /\ \E t \in timers : t.id = typingTimeoutRef[u] /\ t.userId = u

\* C31: in every reachable state, under any interleaving of typing events,
\* timer firings, chat selections and the cleanup and re-subscription of the
\* socket effect, every user of the typing set has a pending expiry timer
\* (the typing set is a subset of the keys of typingTimeoutRef); hence no
\* user stays in the typing set for ever without a stop event: each one
\* reaches a state where it is out of the set and has no timer left.
C31_TypingHasTimer ==
    /\ []C31_HasTimer
    /\ \A u \in Users :
          (u \in typingUsers) ~> (u \notin typingUsers /\ typingTimeoutRef[u] = 0)

\* Two users are shown as typing in the open chat after a selection and
\* three typing events, each with its own pending timer.
C31_Witness ==
    /\ selectedChatId # NoChat /\ calls["select"] < MaxSelect
    /\ calls["typing"] = 0
    /\ Cardinality(typingUsers) = 2
    /\ Cardinality(timers) = 2
    /\ \E t \in timers : t.left < TYPING_TIMEOUT


\* ---- C32 ----
\* C32: a failed edit never produces a success notification. When the server
\* rejects the edit request, the error notification is shown and the success
\* toast of handleEditSave is not.
C32_NoSuccessOnFailure ==
    [][\A i \in 1..Len(edits) :
          EditFail(i) =>
              /\ EditErrorToast(lastError') \in toasts'
              /\ "editSuccess" \notin toasts']_vars


\* ---- C33 ----
\* The list without the message.
Without(prev, id) == SelectSeq(prev, LAMBDA m : m.id # id)

\* For a delete whose request is answered: the confirmation and the
\* message-deleted event, applied to the list in either order and the event
\* once or twice, leave the list without that message and with every other
\* record as it was.
C33_Commute ==
    \A i \in 1..Len(deletes) :
        (deletes[i].chatId = selectedChatId /\ HasId(messages, deletes[i].id)) =>
            LET id == deletes[i].id
                ev == DeletedEvent(deletes[i].chatId, id)
                on(l) == WindowOnMessageDeleted(l, ev, selectedChatId)
            IN  /\ on(DeleteRemove(messages, id)) = Without(messages, id)
                /\ DeleteRemove(on(messages), id) = Without(messages, id)
                /\ DeleteRemove(on(on(messages)), id) = Without(messages, id)
                /\ on(DeleteRemove(on(messages), id)) = Without(messages, id)

\* No two delete requests for one message are in flight.
C33_OneRequest ==
    \A i, j \in 1..Len(deletes) : deletes[i].id = deletes[j].id => i = j

\* While a delete request is in flight the record, if the list holds it, is
\* flagged, which disables its delete action.
C33_Disabled ==
    \A i \in 1..Len(deletes), k \in 1..Len(messages) :
        messages[k].id = deletes[i].id => ~CanStartDelete(messages[k])

\* C33: the confirmation of a delete and the message-deleted event commute:
\* in either order, or with the event twice, the final list is the same,
\* with exactly that message absent and all others unchanged; and while the
\* delete request is in flight the delete action of the message is disabled,
\* so that no second delete request for it is issued.
C33_DeleteCommutes == C33_Commute /\ C33_Disabled /\ C33_OneRequest


\* ---- C34 ----
\* The ids of the chats of a list, in its order.
ChatIdsOf(l) == [i \in 1..Len(l) |-> l[i].id]

\* The chats of a list other than one, in its order.
OtherChats(l, chatId) == SelectSeq(l, LAMBDA c : c.id # chatId)

\* C34: on a message-created event the chat with the event's chatId gets its
\* last-message summary set to the content, sender and timestamp of the
\* event and is moved to the front of the list; the other chats keep their
\* order and the set of chats is unchanged: no chat is added, removed or
\* duplicated, and an event for a chat the list does not hold changes
\* nothing.
C34_ChatListUpdate ==
    [][\A c \in AllChatIds, u \in {Me, Other} :
          ReceiveCreated(c, u) =>
              IF ~HasId(chats, c) THEN chats' = chats
              ELSE /\ Len(chats') = Len(chats)
                   /\ chats'[1].id = c
                   /\ chats'[1].lastMessage =
                          [content |-> "x", senderId |-> u,
                           timestamp |-> nextId]
                   /\ OtherChats(chats', c) = OtherChats(chats, c)
                   /\ Len(OtherChats(chats', c)) = Len(chats) - 1]_vars

\* The last chat of a list of three has received a message and is the first
\* now, the two others follow in their order.
C34_Witness ==
    /\ ChatIdsOf(chats) = << "C", "A", "B" >>
    /\ chats[1].lastMessage.senderId = Other
    /\ chats[2].lastMessage = NoLast /\ chats[3].lastMessage = NoLast


\* ---- C35 ----
\* The users the page shows.
CrmShown == {crm.users[k] : k \in 1..Len(crm.users)}

\* Once every deletion has been answered, no user whose deletion the server
\* confirmed is shown.
C35_DeletedGone ==
    crm.pending = << >> => CrmShown \subseteq crm.stored

\* C35: when two user deletions are started before either completes and both
\* are confirmed by the server, neither deleted user is in the displayed
\* list afterwards; a deletion that fails leaves the list unchanged.
C35_OverlappingDeletes ==
    /\ []C35_DeletedGone
    /\ [][\A i \in 1..Len(crm.pending) :
            CrmDeleteFail(i) => crm'.users = crm.users]_vars

\* A single deletion, or deletions one after the other, remove the user;
\* a failed one changes nothing.
C35_OneAtATime ==
    /\ [](Len(crm.pending) = 0 /\ crm.calls = MaxCrm - 1
            => CrmShown \subseteq crm.stored)
    /\ [][\A i \in 1..Len(crm.pending) :
            CrmDeleteFail(i) => crm'.users = crm.users]_vars


\* ---- C36 ----
\* A request answered with an error has changed neither the hash nor the
\* tokens: every step of a request that ends in an error, or that comes
\* before the update, leaves both as they are.
C36_Rejects ==
    /\ (pw'.reply.code \in {"BadRequest", "NotFound", "Unauthorized"}
            /\ pw'.reply # pw.reply) =>
            pw'.hash = pw.hash /\ pw'.tokens = pw.tokens
    /\ \A u \in {PwUser, GoneUser}, old \in OldPasswords, new \in NewPasswords :
          PwRequest(u, old, new) =>
              /\ pw'.hash = pw.hash /\ pw'.tokens = pw.tokens
              /\ (old = "" \/ new = "" \/ new = "weak") =>
                    pw'.reply.code = "BadRequest" /\ pw'.req.phase = "idle"
    /\ PwFind =>
          /\ pw'.hash = pw.hash /\ pw'.tokens = pw.tokens
          /\ pw.req.user = GoneUser => pw'.reply.code = "NotFound"
    /\ PwCompare =>
          /\ pw'.hash = pw.hash /\ pw'.tokens = pw.tokens
          /\ pw.hash # HashOf(pw.req.old) => pw'.reply.code = "Unauthorized"

\* On success the hash is replaced, then every stored token is invalidated,
\* and only then the new one is stored and returned.
C36_Succeeds ==
    /\ PwUpdate => pw'.hash = HashOf(pw.req.new) /\ pw'.tokens = pw.tokens
    /\ PwInvalidate => pw'.tokens = {} /\ pw'.hash = pw.hash
    /\ PwStore =>
          /\ pw.tokens = {}
          /\ pw'.reply.code = "ok"
          /\ pw'.reply.refreshToken \notin 1..(pw.nextToken - 1)
          /\ pw'.tokens = {pw'.reply.refreshToken}
          /\ pw'.hash = pw.hash

\* After a successful reply exactly the returned refresh token is valid.
C36_OnlyNewToken ==
    pw.reply.code = "ok" => pw.tokens = {pw.reply.refreshToken}

====
